---- MODULE Spec2Model ----
(***************************************************************************)
(* Model of the kernel core of rust_so_kernel:                             *)
(*   - the buddy allocator (kernel/src/allocator/buddy_allocator.rs)       *)
(*   - the run-queue scheduler (kernel/src/process/scheduler.rs)           *)
(* Addresses, orders and the bitmap window keep the values of the source.  *)
(***************************************************************************)
EXTENDS Integers, Sequences, FiniteSets, TLC

VARIABLES
    BUDDY,              \* the global BuddyAllocator (free_lists, bitmap, total_memory)
    regions,            \* regions passed to add_region so far
    outstanding,        \* <<addr, order>> blocks handed out by allocate and not freed
    last_call,          \* the most recent allocator call and what it returned
    law,                \* progress of an allocate, allocate-buddy, free, free sequence
    contract_violated,  \* a block was passed to deallocate a second time
    SCHEDULER,          \* the global Scheduler
    added,              \* pids passed to add_process so far
    last_op,            \* the most recent scheduler operation
    need_switch,        \* a caller is between tick()/kill_current() and switch_to_next()
    owed,               \* <<a, b>>: a and b were Ready with a above b, a has not run since
    ticks_run,          \* timer ticks since the Running process was put on the CPU
    ready_order,        \* pids of the Ready processes, the longest Ready first
    regs,               \* the general-purpose registers of the CPU in user mode
    handler_ret,        \* what syscall_handler_asm returned in the last system call
    cpu_op,             \* what the CPU did last: "boot", "user" or "syscall"
    rflags_if,          \* RFLAGS.IF: maskable interrupts are delivered
    mutex,              \* who holds the SCHEDULER mutex: "free" or "syscall"
    sys_path,           \* instructions the running system call has still to execute
    TICK,               \* the static TICK of timer_preempt_handler
    spinning,           \* the timer handler spins on a mutex the interrupted code holds
    files,              \* the FileDescriptorTable of the calling process
    fd_call,            \* the last read, write, open or close: arguments and result
    pf,                 \* the last page-fault error code given to is_demand_pageable and the answer
    PAGE_TABLES,        \* physical frames that hold page tables: frame -> (index -> entry)
    frame_data,         \* what a data frame holds: zero, code, or what a process wrote
    SPACES,             \* the AddressSpace of each process: PML4 frame and VmaList
    fault,              \* the last exception or user access: its inputs and what the handler did
    kernel_panic,       \* a handler or the boot code has panicked
    vmas,               \* AddressSpace.vmas of one address space
    vma_ret,            \* result of the last add_vma
    KEYBOARD_BUFFER,    \* the keyboard ring: buffer, read_index, write_index
    kb_push,            \* the push in progress: position and locals
    kb_pop,             \* the pop in progress: position and locals
    kb_pushes,          \* number of push calls made
    kb_accepted,        \* characters published by push, in order
    kb_popped,          \* characters returned by pop, in order
    kb_ret,             \* what the last finished push or pop returned
    processes,          \* Scheduler.processes as timer_preempt_handler walks it
    current,            \* Scheduler.current
    PREEMPT_TICK,       \* the static TICK of timer_preempt_handler
    exited,             \* pids of the processes that called exit
    TRAPFRAMES,         \* the TrapFrame each process owns, by pid
    cpu_regs,           \* the registers of the CPU
    resumed,            \* the last process put on the CPU: what it observed and its TrapFrame
    SLAB_ALLOCATOR,     \* the caches of the slab allocator
    heap_mem,           \* the first 8 bytes at the sampled addresses of the heap
    live,               \* the allocations not yet freed, each with what its owner stored
    slab_call,          \* the last call of the heap allocator
    debug_assertions    \* cfg(debug_assertions) of the build

buddy_vars == <<BUDDY, regions, outstanding, last_call, law, contract_violated>>

sched_vars == <<SCHEDULER, added, last_op, need_switch, owed, ticks_run, ready_order>>

syscall_vars == <<regs, handler_ret, cpu_op>>

irq_vars == <<rflags_if, mutex, sys_path, TICK, spinning>>

fd_vars == <<files, fd_call>>

pf_vars == <<pf>>

mem_vars == <<PAGE_TABLES, frame_data, SPACES, fault, kernel_panic>>

vma_vars == <<vmas, vma_ret>>

kb_vars == <<KEYBOARD_BUFFER, kb_push, kb_pop, kb_pushes, kb_accepted, kb_popped, kb_ret>>

preempt_vars == <<processes, current, PREEMPT_TICK, exited>>

resume_vars == <<TRAPFRAMES, cpu_regs, resumed>>

slab_vars == <<SLAB_ALLOCATOR, heap_mem, live, slab_call, debug_assertions>>

vars == <<buddy_vars, sched_vars, syscall_vars, irq_vars, fd_vars, pf_vars, mem_vars, vma_vars, kb_vars, preempt_vars, resume_vars, slab_vars>>

\* what the calls of one part of the kernel leave alone
outside_buddy == <<sched_vars, syscall_vars, irq_vars, fd_vars, pf_vars, mem_vars, vma_vars, kb_vars, preempt_vars, resume_vars, slab_vars>>
outside_sched == <<buddy_vars, syscall_vars, irq_vars, fd_vars, pf_vars, mem_vars, vma_vars, kb_vars, preempt_vars, resume_vars, slab_vars>>
outside_syscall == <<buddy_vars, sched_vars, irq_vars, fd_vars, pf_vars, mem_vars, vma_vars, kb_vars, preempt_vars, resume_vars, slab_vars>>
outside_irq == <<buddy_vars, sched_vars, syscall_vars, fd_vars, pf_vars, mem_vars, vma_vars, kb_vars, preempt_vars, resume_vars, slab_vars>>
outside_fd == <<buddy_vars, sched_vars, syscall_vars, irq_vars, pf_vars, mem_vars, vma_vars, kb_vars, preempt_vars, resume_vars, slab_vars>>
outside_pf == <<buddy_vars, sched_vars, syscall_vars, irq_vars, fd_vars, mem_vars, vma_vars, kb_vars, preempt_vars, resume_vars, slab_vars>>
outside_mem == <<buddy_vars, sched_vars, syscall_vars, irq_vars, fd_vars, pf_vars, vma_vars, kb_vars, preempt_vars, resume_vars, slab_vars>>
outside_vma == <<buddy_vars, sched_vars, syscall_vars, irq_vars, fd_vars, pf_vars, mem_vars, kb_vars, preempt_vars, resume_vars, slab_vars>>
outside_kb == <<buddy_vars, sched_vars, syscall_vars, irq_vars, fd_vars, pf_vars, mem_vars, vma_vars, preempt_vars, resume_vars, slab_vars>>
outside_preempt == <<buddy_vars, sched_vars, syscall_vars, irq_vars, fd_vars, pf_vars, mem_vars, vma_vars, kb_vars, resume_vars, slab_vars>>
outside_resume == <<buddy_vars, sched_vars, syscall_vars, irq_vars, fd_vars, pf_vars, mem_vars, vma_vars, kb_vars, preempt_vars, slab_vars>>
outside_slab == <<buddy_vars, sched_vars, syscall_vars, irq_vars, fd_vars, pf_vars, mem_vars, vma_vars, kb_vars, preempt_vars, resume_vars>>

\* what the boot sequence and the exception handlers leave alone
beside_boot == <<syscall_vars, irq_vars, fd_vars, pf_vars, vma_vars, kb_vars, preempt_vars, resume_vars, slab_vars>>

\* what the actions on the scheduler and the registers leave alone
beside_resume == <<buddy_vars, syscall_vars, irq_vars, fd_vars, pf_vars, mem_vars, vma_vars, kb_vars, preempt_vars, slab_vars>>

\* what the heap allocator leaves alone
beside_slab == <<sched_vars, syscall_vars, irq_vars, fd_vars, pf_vars, mem_vars, vma_vars, kb_vars, preempt_vars, resume_vars>>

(***************************************************************************)
(* Bounds and inputs                                                       *)
(***************************************************************************)
MaxOutstanding == 3

\* Usable regions of the boot memory map: page-aligned and pairwise disjoint.
\* The first is a single page whose buddy (address 0) is reserved; the second
\* is the region of the specification's scenario 1 and reaches above the
\* 512 MiB bitmap window.
MemoryMap == { <<4096, 8192>>, <<2097152, 1073741824>> }

\* Orders the callers request (slab pages, page tables: 12; large objects).
AllocOrders == {12, 27, 28}

(***************************************************************************)
(* Constants of buddy_allocator.rs                                         *)
(***************************************************************************)
MIN_ORDER == 12
MAX_ORDER == 28
NUM_ORDERS == MAX_ORDER - MIN_ORDER + 1
MAX_PHYS_ADDR == 512 * 1024 * 1024

Orders == MIN_ORDER..MAX_ORDER

None == <<>>
Some(x) == <<x>>

Min(a, b) == IF a <= b THEN a ELSE b
Max(a, b) == IF a >= b THEN a ELSE b

RECURSIVE Pow2(_)
Pow2(n) == IF n = 0 THEN 1 ELSE 2 * Pow2(n - 1)

POW2 == [n \in 0..30 |-> Pow2(n)]

\* 1u64 << n, for the shifts the allocator makes (n <= MAX_ORDER)
Shl1(n) == POW2[n]

\* u64::trailing_zeros
RECURSIVE trailing_zeros(_)
trailing_zeros(x) ==
    IF x = 0 THEN 64
    ELSE IF x % 2 = 1 THEN 0
    ELSE 1 + trailing_zeros(x \div 2)

\* 63 - u64::leading_zeros(x), for x > 0: the position of the highest set bit
RECURSIVE highest_bit(_)
highest_bit(x) == IF x <= 1 THEN 0 ELSE 1 + highest_bit(x \div 2)

\* a ^ (1 << order): flips bit `order` of a
XorBit(a, order) ==
    IF (a \div Shl1(order)) % 2 = 0 THEN a + Shl1(order) ELSE a - Shl1(order)

order_to_index(order) == order - MIN_ORDER

\* BITMAP_OFFSETS[i]: byte offset of order MIN_ORDER+i in the flat bitmap
RECURSIVE bitmap_offsets(_)
bitmap_offsets(i) ==
    IF i = 0 THEN 0
    ELSE bitmap_offsets(i - 1)
         + (((MAX_PHYS_ADDR \div Shl1(MIN_ORDER + i - 1)) + 7) \div 8)

BITMAP_OFFSETS == [i \in 0..(NUM_ORDERS - 1) |-> bitmap_offsets(i)]

BITMAP_BYTES == bitmap_offsets(NUM_ORDERS)

\* BuddyAllocator::new
new == [ free_lists   |-> [o \in Orders |-> <<>>],
         bitmap       |-> {},
         total_memory |-> 0,
         panicked     |-> FALSE ]

\* a failed debug_assert!: the kernel panics and nothing runs afterwards
Panic(s) == [s EXCEPT !.panicked = TRUE]

\* bitmap_pos: Some(<<byte_offset, bit>>) or None outside the tracked window
bitmap_pos(order, addr) ==
    IF addr >= MAX_PHYS_ADDR THEN None
    ELSE LET idx == order - MIN_ORDER
             bit_index == addr \div Shl1(order)
         IN  Some(<<BITMAP_OFFSETS[idx] + (bit_index \div 8), bit_index % 8>>)

bitmap_set(s, order, addr) ==
    LET pos == bitmap_pos(order, addr) IN
    IF s.panicked \/ pos = None THEN s
    ELSE IF pos[1] \in s.bitmap THEN Panic(s)
    ELSE [s EXCEPT !.bitmap = @ \cup {pos[1]}]

bitmap_clear(s, order, addr) ==
    LET pos == bitmap_pos(order, addr) IN
    IF s.panicked \/ pos = None THEN s
    ELSE IF pos[1] \notin s.bitmap THEN Panic(s)
    ELSE [s EXCEPT !.bitmap = @ \ {pos[1]}]

is_free(s, order, addr) ==
    LET pos == bitmap_pos(order, addr) IN
    IF pos = None THEN FALSE ELSE pos[1] \in s.bitmap

\* add_block that forgets the bitmap
add_block_no_bitmap(s, order, addr) ==
    IF s.panicked THEN s
    ELSE [s EXCEPT !.free_lists[order] = <<addr>> \o @]

\* add_block: push to the head of the order's list, then set the bit
add_block(s, order, addr) ==
    IF s.panicked THEN s
    ELSE bitmap_set([s EXCEPT !.free_lists[order] = <<addr>> \o @], order, addr)

\* remove_from_head: addr must be the head; head = block.next, clear the bit
remove_from_head(s, order, addr) ==
    IF s.panicked THEN s
    ELSE IF s.free_lists[order] = <<>> \/ Head(s.free_lists[order]) # addr
         THEN Panic(s)
    ELSE bitmap_clear([s EXCEPT !.free_lists[order] = Tail(@)], order, addr)

\* the list without its first occurrence of addr
RECURSIVE Unlink(_, _)
Unlink(list, addr) ==
    IF list = <<>> THEN <<>>
    ELSE IF Head(list) = addr THEN Tail(list)
    ELSE <<Head(list)>> \o Unlink(Tail(list), addr)

InList(list, addr) == \E i \in 1..Len(list) : list[i] = addr

\* remove_arbitrary_block: head fast path, else scan and unlink; a block that
\* is not in the list leaves list and bitmap alone
remove_arbitrary_block(s, order, addr) ==
    IF s.panicked THEN s
    ELSE IF s.free_lists[order] # <<>> /\ Head(s.free_lists[order]) = addr
         THEN remove_from_head(s, order, addr)
    ELSE IF ~InList(s.free_lists[order], addr) THEN s
    ELSE bitmap_clear([s EXCEPT !.free_lists[order] = Unlink(@, addr)], order, addr)

\* buddy_of: addr ^ (1 << order)
buddy_of(addr, order) == XorBit(addr, order)

\* split_block that frees the lower half and keeps it too
RECURSIVE split_block_lower(_, _, _, _)
split_block_lower(s, from_order, addr, to_order) ==
    IF from_order > to_order
    THEN split_block_lower(add_block(s, from_order - 1, addr),
                           from_order - 1, addr, to_order)
    ELSE s

\* split_block: from from_order down to to_order, free the upper half at
\* each level; the caller keeps the lower-addressed part
RECURSIVE split_block(_, _, _, _)
split_block(s, from_order, addr, to_order) ==
    IF from_order > to_order
    THEN split_block(add_block(s, from_order - 1, addr + Shl1(from_order - 1)),
                     from_order - 1, addr, to_order)
    ELSE s

\* the split loop taking the largest free block instead of the smallest
RECURSIVE allocate_largest(_, _, _)
allocate_largest(s, order, larger_order) ==
    LET top == MAX_ORDER - (larger_order - (order + 1)) IN
    IF larger_order > MAX_ORDER THEN [state |-> s, ret |-> None]
    ELSE IF s.free_lists[top] # <<>>
    THEN LET addr == Head(s.free_lists[top])
         IN  [state |-> split_block(remove_from_head(s, top, addr), top, addr, order),
              ret   |-> Some(addr)]
    ELSE allocate_largest(s, order, larger_order + 1)

\* the `for larger_order in (order + 1)..=MAX_ORDER` loop of allocate
RECURSIVE allocate_larger(_, _, _)
allocate_larger(s, order, larger_order) ==
    IF larger_order > MAX_ORDER THEN [state |-> s, ret |-> None]
    ELSE IF s.free_lists[larger_order] # <<>>
    THEN LET addr == Head(s.free_lists[larger_order])
         IN  [state |-> split_block(remove_from_head(s, larger_order, addr),
                                    larger_order, addr, order),
              ret   |-> Some(addr)]
    ELSE allocate_larger(s, order, larger_order + 1)

\* allocate(order): [state, ret] with ret = Some(addr) or None
allocate(s, order) ==
    IF order < MIN_ORDER \/ order > MAX_ORDER
    THEN [state |-> Panic(s), ret |-> None]
    ELSE IF s.free_lists[order] # <<>>
    THEN LET addr == Head(s.free_lists[order])
         IN  [state |-> remove_from_head(s, order, addr), ret |-> Some(addr)]
    ELSE allocate_larger(s, order, order + 1)

\* the coalescing loop that leaves the buddy on its free list
RECURSIVE coalesce_keeps_buddy(_, _, _)
coalesce_keeps_buddy(s, current_addr, current_order) ==
    IF current_order < MAX_ORDER
       /\ is_free(s, current_order, buddy_of(current_addr, current_order))
    THEN LET buddy_addr == buddy_of(current_addr, current_order)
         IN  coalesce_keeps_buddy(s, Min(current_addr, buddy_addr), current_order + 1)
    ELSE add_block(s, current_order, current_addr)

\* the coalescing loop that merges into the higher of the two addresses
RECURSIVE coalesce_max(_, _, _)
coalesce_max(s, current_addr, current_order) ==
    IF current_order < MAX_ORDER
       /\ is_free(s, current_order, buddy_of(current_addr, current_order))
    THEN LET buddy_addr == buddy_of(current_addr, current_order)
         IN  coalesce_max(remove_arbitrary_block(s, current_order, buddy_addr),
                          Max(current_addr, buddy_addr), current_order + 1)
    ELSE add_block(s, current_order, current_addr)

\* the coalescing loop of deallocate, ending in add_block
RECURSIVE coalesce(_, _, _)
coalesce(s, current_addr, current_order) ==
    IF current_order < MAX_ORDER
       /\ is_free(s, current_order, buddy_of(current_addr, current_order))
    THEN LET buddy_addr == buddy_of(current_addr, current_order)
         IN  coalesce(remove_arbitrary_block(s, current_order, buddy_addr),
                      Min(current_addr, buddy_addr), current_order + 1)
    ELSE add_block(s, current_order, current_addr)

\* deallocate(addr, order), debug build
deallocate(s, addr, order) ==
    IF order < MIN_ORDER \/ order > MAX_ORDER \/ addr % Shl1(order) # 0
    THEN Panic(s)
    ELSE coalesce(s, addr, order)

\* the add_region loop sizing blocks by the remaining size alone
RECURSIVE add_region_loop_no_align(_, _, _)
add_region_loop_no_align(s, current_addr, end) ==
    IF current_addr >= end \/ end - current_addr < Shl1(MIN_ORDER) THEN s
    ELSE LET remaining  == end - current_addr
             size_order == highest_bit(remaining)
             order      == Max(Min(size_order, MAX_ORDER), MIN_ORDER)
         IN  add_region_loop_no_align(add_block(s, order, current_addr),
                                      current_addr + Shl1(order), end)

\* the `while current_addr < end` loop of add_region
RECURSIVE add_region_loop(_, _, _)
add_region_loop(s, current_addr, end) ==
    IF current_addr >= end \/ end - current_addr < Shl1(MIN_ORDER) THEN s
    ELSE LET remaining   == end - current_addr
             align_order == trailing_zeros(current_addr)
             size_order  == highest_bit(remaining)
             order       == Max(Min(Min(align_order, size_order), MAX_ORDER), MIN_ORDER)
         IN  add_region_loop(add_block(s, order, current_addr),
                             current_addr + Shl1(order), end)

\* add_region(start, end)
add_region(s, start, end) ==
    add_region_loop([s EXCEPT !.total_memory = @ + (end - start)], start, end)

(***************************************************************************)
(* Allocator calls                                                         *)
(***************************************************************************)
Call(op, order, ret) == [op |-> op, order |-> order, ret |-> ret]

NoCall == Call("none", 0, None)

\* Progress of the sequence allocate(o) = X, allocate(o) = buddy of X,
\* deallocate(X, o), deallocate(buddy, o), with no other call in between.
\* stage 0: not started; 1: X allocated; 2: the buddy allocated next;
\* 3: X freed next; 4: the buddy freed next.
NoLaw == [stage |-> 0, x |-> 0, order |-> 0]

LawAfter(l, c) ==
    IF c.op = "allocate" /\ c.ret # None
    THEN IF l.stage = 1 /\ c.order = l.order /\ c.ret[1] = buddy_of(l.x, l.order)
         THEN [l EXCEPT !.stage = 2]
         ELSE [stage |-> 1, x |-> c.ret[1], order |-> c.order]
    ELSE IF c.op = "deallocate" /\ l.stage = 2 /\ c.order = l.order /\ c.ret[1] = l.x
    THEN [l EXCEPT !.stage = 3]
    ELSE IF c.op = "deallocate" /\ l.stage = 3 /\ c.order = l.order
            /\ c.ret[1] = buddy_of(l.x, l.order)
    THEN [l EXCEPT !.stage = 4]
    ELSE NoLaw

InitBuddyVars ==
    /\ BUDDY = new
    /\ regions = {}
    /\ outstanding = {}
    /\ last_call = NoCall
    /\ law = NoLaw
    /\ contract_violated = FALSE

Alive == ~BUDDY.panicked /\ ~contract_violated

\* init::memory: buddy.add_region(region.start, region.end)
AddRegion(r) ==
    /\ Alive
    /\ r \notin regions
    /\ BUDDY' = add_region(BUDDY, r[1], r[2])
    /\ regions' = regions \cup {r}
    /\ last_call' = Call("add_region", 0, Some(r[1]))
    /\ law' = LawAfter(law, last_call')
    /\ UNCHANGED <<outstanding, contract_violated, outside_buddy>>

\* BUDDY.lock().allocate(order)
Allocate(order) ==
    LET res == allocate(BUDDY, order) IN
    /\ Alive
    /\ Cardinality(outstanding) < MaxOutstanding \/ res.ret = None
    /\ BUDDY' = res.state
    /\ outstanding' = IF res.ret = None THEN outstanding
                      ELSE outstanding \cup {<<res.ret[1], order>>}
    /\ last_call' = Call("allocate", order, res.ret)
    /\ law' = LawAfter(law, last_call')
    /\ UNCHANGED <<regions, contract_violated, outside_buddy>>

\* BUDDY.lock().deallocate(addr, order) of a block the caller holds
Deallocate(addr, order) ==
    /\ Alive
    /\ <<addr, order>> \in outstanding
    /\ BUDDY' = deallocate(BUDDY, addr, order)
    /\ outstanding' = outstanding \ {<<addr, order>>}
    /\ last_call' = Call("deallocate", order, Some(addr))
    /\ law' = LawAfter(law, last_call')
    /\ UNCHANGED <<regions, contract_violated, outside_buddy>>

\* deallocate(x, o) called again right after deallocate(x, o)
DeallocateAgain ==
    /\ Alive
    /\ last_call.op = "deallocate"
    /\ BUDDY' = deallocate(BUDDY, last_call.ret[1], last_call.order)
    /\ contract_violated' = TRUE
    /\ UNCHANGED <<regions, outstanding, last_call, law, outside_buddy>>

NextBuddy ==
    \/ \E r \in MemoryMap : AddRegion(r)
    \/ \E order \in AllocOrders : Allocate(order)
    \/ \E b \in outstanding : Deallocate(b[1], b[2])

NextDoubleFree ==
    \/ NextBuddy
    \/ DeallocateAgain

NoPanic == ~BUDDY.panicked

(***************************************************************************)
(* Properties of the buddy allocator                                       *)
(***************************************************************************)
ScenarioRegion == <<2097152, 1073741824>>

\* the blocks on the free lists, as <<addr, order>>
FreeBlocks ==
    UNION { { <<BUDDY.free_lists[o][i], o>> : i \in 1..Len(BUDDY.free_lists[o]) } :
            o \in Orders }

Disjoint(A, B) ==
    A[1] + Shl1(A[2]) <= B[1] \/ B[1] + Shl1(B[2]) <= A[1]

\* C1: any two outstanding allocations occupy disjoint intervals, and no
\* outstanding allocation shares a byte with a block on a free list.
C1_NonOverlap ==
    /\ \A A \in outstanding : \A B \in outstanding : A # B => Disjoint(A, B)
    /\ \A A \in outstanding : \A F \in FreeBlocks : Disjoint(A, F)

C1_Witness ==
    /\ Cardinality(outstanding) >= 2
    /\ \E A \in outstanding : \E B \in outstanding : A[2] # B[2]
    /\ last_call.op = "deallocate"
    /\ FreeBlocks # {}

RECURSIVE SumSizes(_)
SumSizes(S) ==
    IF S = {} THEN 0
    ELSE LET b == CHOOSE x \in S : TRUE
         IN  Shl1(b[2]) + SumSizes(S \ {b})

RECURSIVE FreeBytesFrom(_)
FreeBytesFrom(o) ==
    IF o > MAX_ORDER THEN 0
    ELSE Len(BUDDY.free_lists[o]) * Shl1(o) + FreeBytesFrom(o + 1)

RECURSIVE RegionBytes(_)
RegionBytes(R) ==
    IF R = {} THEN 0
    ELSE LET r == CHOOSE x \in R : TRUE
         IN  (r[2] - r[1]) + RegionBytes(R \ {r})

LawX == law.x
LawY == buddy_of(law.x, law.order)
LawLow == Min(LawX, LawY)

C5_DoubleFreeAborts ==
    contract_violated => BUDDY.panicked

\* block addresses the bitmap test is asked about: the free and the
\* outstanding blocks of an order, and their buddies
Candidates(o) ==
    LET own == { b[1] : b \in { x \in FreeBlocks \cup outstanding : x[2] = o } }
    IN  own \cup { buddy_of(a, o) : a \in own }

InWindowFree == { F \in FreeBlocks : F[1] < MAX_PHYS_ADDR }

NonEmptyFrom(o) == { k \in o..MAX_ORDER : BUDDY.free_lists[k] # <<>> }

Least(S) == CHOOSE k \in S : \A j \in S : k <= j

\* what C7 says a step allocate(o) with result ret does
AllocateAsClaimed(o, ret) ==
    IF NonEmptyFrom(o) = {}
    THEN ret = None /\ BUDDY' = BUDDY
    ELSE LET k == Least(NonEmptyFrom(o))
             a == Head(BUDDY.free_lists[k])
         IN  /\ ret = Some(a)
             /\ BUDDY'.free_lists[k] = Tail(BUDDY.free_lists[k])
             /\ \A j \in o..(k - 1) : BUDDY'.free_lists[j] = <<XorBit(a, j)>>
             /\ \A j \in Orders \ (o..k) :
                    BUDDY'.free_lists[j] = BUDDY.free_lists[j]

\* C7: allocate(order) returns the head of the order's list, or the lowest
\* part of the head of the smallest non-empty larger order, leaving each
\* upper half free at its order; None exactly when nothing of order >= the
\* requested one is free, changing nothing; on the fresh scenario region two
\* order-12 allocations return 0x200000 then 0x201000.
C7_AllocateResult ==
    [][ last_call'.op = "allocate" =>
          /\ AllocateAsClaimed(last_call'.order, last_call'.ret)
          /\ (regions = {ScenarioRegion} /\ last_call.op = "add_region"
                /\ last_call'.order = 12)
                => last_call'.ret = Some(2097152)
          /\ (regions = {ScenarioRegion} /\ last_call = Call("allocate", 12, Some(2097152))
                /\ outstanding = {<<2097152, 12>>} /\ last_call'.order = 12)
                => last_call'.ret = Some(2101248)
      ]_vars

C7_Witness ==
    /\ regions = {ScenarioRegion}
    /\ law = [stage |-> 2, x |-> 2097152, order |-> 12]
    /\ outstanding = {<<2097152, 12>>, <<2101248, 12>>}

C7_WitnessOOM ==
    /\ last_call.op = "allocate"
    /\ last_call.ret = None
    /\ regions # {}

(***************************************************************************)
(* Scheduler (kernel/src/process/scheduler.rs)                             *)
(***************************************************************************)
\* init::processes::init_all after the idle process: the two user processes
\* (priority 5), then the shell (priority 8)
BootPriorities == <<5, 5, 8>>

\* the address spaces of the same three: new_user for the user processes,
\* the kernel's for the shell
BootAddressSpaces == <<"user", "user", "kernel">>

NUM_PRIORITIES == 11
BASE_QUANTUM == 2
PRIORITY_QUANTUM_BONUS == 1
AGING_EPOCH == 50
MIN_EFFECTIVE_PRIORITY == 1

Priorities == 0..(NUM_PRIORITIES - 1)

\* a Process, reduced to the fields the scheduler reads and writes
Process(pid, state, priority, kernel_stack, address_space) ==
    [ pid |-> pid, state |-> state, priority |-> priority,
      effective_priority |-> priority,
      kernel_stack |-> kernel_stack, address_space |-> address_space ]

\* the PML4 frame CR3 holds at boot; OwnedPageTable::from_current reads it
BOOT_PML4 == 0

\* AddressSpace::kernel: the page table that is active at boot, not owned
AddressSpace_kernel == BOOT_PML4

\* AddressSpace::new_user: a PML4 frame of its own for the n-th user process
AddressSpace_new_user(n) == 100 + n

\* init::processes::allocate_kernel_stack, the n-th call: the top of a block
\* of its own (block base + 4096, in units of 4096 bytes)
allocate_kernel_stack(n) == 4 * n + 1

\* tss::init: RSP0 starts as the end of a static stack
BOOT_RSP0 == 0

\* tss::set_kernel_stack: privilege_stack_table[0] = stack_top
set_kernel_stack(stack_top) == stack_top

\* an activate that never writes CR3
activate_never_writes(cr3, pml4_frame) == cr3

\* OwnedPageTable::activate: CR3 is written unless it already holds the frame
activate(cr3, pml4_frame) == IF cr3 = pml4_frame THEN cr3 ELSE pml4_frame

\* Process::set_priority
set_priority(priority) == Min(priority, 10)

\* Scheduler::new; global_ticks is kept modulo AGING_EPOCH, the only way
\* tick() reads it.  tss_rsp0 and cr3 are the two pieces of machine state the
\* scheduler writes (TSS.privilege_stack_table[0] and CR3), carried with it
scheduler_new ==
    [ run_queues      |-> [p \in Priorities |-> <<>>],
      wait_queue      |-> <<>>,
      running         |-> None,
      remaining_ticks |-> 0,
      global_ticks    |-> 0,
      next_pid        |-> 1,
      panicked        |-> FALSE,
      tss_rsp0        |-> BOOT_RSP0,
      cr3             |-> BOOT_PML4 ]

quantum_for(effective_priority) ==
    BASE_QUANTUM + effective_priority * PRIORITY_QUANTUM_BONUS

\* VecDeque::remove(i), 1-based
RemoveAt(q, i) == SubSeq(q, 1, i - 1) \o SubSeq(q, i + 1, Len(q))

\* add_process: effective_priority = priority, push_back on its queue
add_process(s, process) ==
    LET proc == [process EXCEPT !.effective_priority = process.priority]
        pri  == Min(proc.effective_priority, NUM_PRIORITIES - 1)
    IN  [s EXCEPT !.run_queues[pri] = Append(@, proc)]

\* a kill_current that moves the process without marking it Zombie
kill_current_no_zombie(s) ==
    IF s.running = None THEN s
    ELSE [s EXCEPT !.wait_queue = Append(@, s.running[1]),
                   !.running = None]

\* a kill_current that leaves the process in the running slot as well
kill_current_keeps_running(s) ==
    IF s.running = None THEN s
    ELSE [s EXCEPT !.wait_queue = Append(@, [s.running[1] EXCEPT !.state = "Zombie"])]

\* kill_current: the running process becomes Zombie at the back of wait_queue
kill_current(s) ==
    IF s.running = None THEN s
    ELSE [s EXCEPT !.wait_queue = Append(@, [s.running[1] EXCEPT !.state = "Zombie"]),
                   !.running = None]

\* a pick that scans the queues upwards from 0 instead of downwards
pick_next_lowest(s, priority) ==
    LET N == { p \in 0..priority : s.run_queues[p] # <<>> } IN
    IF N = {} THEN s
    ELSE LET low  == CHOOSE p \in N : \A q \in N : p <= q
             proc == [Head(s.run_queues[low]) EXCEPT !.state = "Running"]
         IN  [s EXCEPT !.run_queues[low] = Tail(@),
                       !.cr3 = activate(@, proc.address_space),
                       !.tss_rsp0 = set_kernel_stack(proc.kernel_stack),
                       !.remaining_ticks = quantum_for(proc.effective_priority),
                       !.running = Some(proc)]

\* `for priority in (0..NUM_PRIORITIES).rev()`: pop the front of the first
\* non-empty queue from `priority` down and make it Running
RECURSIVE pick_next(_, _)
pick_next(s, priority) ==
    IF priority < 0 THEN s
    ELSE IF s.run_queues[priority] # <<>>
    THEN LET proc == [Head(s.run_queues[priority]) EXCEPT !.state = "Running"]
         IN  [s EXCEPT !.run_queues[priority] = Tail(@),
                       !.cr3 = activate(@, proc.address_space),
                       !.tss_rsp0 = set_kernel_stack(proc.kernel_stack),
                       !.remaining_ticks = quantum_for(proc.effective_priority),
                       !.running = Some(proc)]
    ELSE pick_next(s, priority - 1)

\* kill_and_switch: kill_current, then pick; panics when nothing is Ready
kill_and_switch(s) ==
    LET k == pick_next(kill_current(s), NUM_PRIORITIES - 1)
    IN  IF k.running = None THEN [k EXCEPT !.panicked = TRUE] ELSE k

\* age_processes: for pri in 0..NUM_PRIORITIES, walk queue pri by index i
\* (1-based here); a boosted process is removed and pushed on the back of
\* its new queue, and i stays
RECURSIVE age_processes_from(_, _, _)
age_processes_from(rq, pri, i) ==
    IF pri >= NUM_PRIORITIES THEN rq
    ELSE IF i > Len(rq[pri]) THEN age_processes_from(rq, pri + 1, 1)
    ELSE LET proc == rq[pri][i] IN
         IF proc.pid = 0 THEN age_processes_from(rq, pri, i + 1)
         ELSE IF proc.effective_priority < proc.priority
         THEN LET boosted == [proc EXCEPT !.effective_priority =
                                  Min(proc.effective_priority + 1, proc.priority)]
                  new_pri == Min(boosted.effective_priority, NUM_PRIORITIES - 1)
                  removed == [rq EXCEPT ![pri] = RemoveAt(@, i)]
              IN  age_processes_from([removed EXCEPT ![new_pri] = Append(@, boosted)],
                                     pri, i)
         ELSE age_processes_from(rq, pri, i + 1)

age_processes(s) == [s EXCEPT !.run_queues = age_processes_from(s.run_queues, 0, 1)]

\* a tick that tests remaining_ticks before decrementing it
tick_tests_first(s) ==
    LET g    == (s.global_ticks + 1) % AGING_EPOCH
        s1   == [s EXCEPT !.global_ticks = g]
        s2   == IF g % AGING_EPOCH = 0 THEN age_processes(s1) ELSE s1
        s3   == IF s2.remaining_ticks > 0
                THEN [s2 EXCEPT !.remaining_ticks = @ - 1] ELSE s2
    IN  [state |-> s3, ret |-> (s2.remaining_ticks = 0)]

\* tick: [state, ret]; ret is TRUE when the time slice is exhausted
tick(s) ==
    LET g    == (s.global_ticks + 1) % AGING_EPOCH
        s1   == [s EXCEPT !.global_ticks = g]
        s2   == IF g % AGING_EPOCH = 0 THEN age_processes(s1) ELSE s1
        s3   == IF s2.remaining_ticks > 0
                THEN [s2 EXCEPT !.remaining_ticks = @ - 1] ELSE s2
    IN  [state |-> s3, ret |-> (s3.remaining_ticks = 0)]

\* a requeue that decays every process, without the floor and with idle
requeue_current_decays_all(s) ==
    IF s.running = None THEN s
    ELSE LET proc == s.running[1]
             t    == [s EXCEPT !.running = None]
             dec  == Max(proc.effective_priority - 1, 0)
         IN  IF proc.state \in {"Zombie", "Blocked"}
             THEN [t EXCEPT !.wait_queue = Append(@, proc)]
             ELSE [t EXCEPT !.run_queues[dec] =
                       Append(@, [proc EXCEPT !.state = "Ready",
                                              !.effective_priority = dec])]

\* a requeue that forgets the decay of the effective priority
requeue_current_no_decay(s) ==
    IF s.running = None THEN s
    ELSE LET proc == s.running[1]
             t    == [s EXCEPT !.running = None]
             pri  == Min(proc.effective_priority, NUM_PRIORITIES - 1)
         IN  IF proc.state \in {"Zombie", "Blocked"}
             THEN [t EXCEPT !.wait_queue = Append(@, proc)]
             ELSE [t EXCEPT !.run_queues[pri] = Append(@, [proc EXCEPT !.state = "Ready"])]

\* a requeue that puts a Zombie back in its run queue as Ready
requeue_current_zombie_ready(s) ==
    IF s.running = None THEN s
    ELSE LET proc == s.running[1]
             t    == [s EXCEPT !.running = None]
             pri  == Min(proc.effective_priority, NUM_PRIORITIES - 1)
         IN  IF proc.state = "Running"
             THEN LET decayed ==
                         IF proc.pid # 0 /\ proc.effective_priority > MIN_EFFECTIVE_PRIORITY
                         THEN [proc EXCEPT !.state = "Ready",
                                           !.effective_priority = @ - 1]
                         ELSE [proc EXCEPT !.state = "Ready"]
                      dpri == Min(decayed.effective_priority, NUM_PRIORITIES - 1)
                  IN  [t EXCEPT !.run_queues[dpri] = Append(@, decayed)]
             ELSE IF proc.state = "Blocked"
             THEN [t EXCEPT !.wait_queue = Append(@, proc)]
             ELSE [t EXCEPT !.run_queues[pri] = Append(@, [proc EXCEPT !.state = "Ready"])]

\* step 1 of switch_to_next: the outgoing process goes back to a queue
requeue_current(s) ==
    IF s.running = None THEN s
    ELSE LET proc == s.running[1]
             t    == [s EXCEPT !.running = None]
         IN  IF proc.state = "Running"
             THEN LET decayed ==
                         IF proc.pid # 0 /\ proc.effective_priority > MIN_EFFECTIVE_PRIORITY
                         THEN [proc EXCEPT !.state = "Ready",
                                           !.effective_priority = @ - 1]
                         ELSE [proc EXCEPT !.state = "Ready"]
                      pri == Min(decayed.effective_priority, NUM_PRIORITIES - 1)
                  IN  [t EXCEPT !.run_queues[pri] = Append(@, decayed)]
             ELSE IF proc.state \in {"Zombie", "Blocked"}
             THEN [t EXCEPT !.wait_queue = Append(@, proc)]
             ELSE LET pri == Min(proc.effective_priority, NUM_PRIORITIES - 1)
                  IN  [t EXCEPT !.run_queues[pri] = Append(@, proc)]

\* switch_to_next: requeue the outgoing process, then pick the next one
switch_to_next(s) == pick_next(requeue_current(s), NUM_PRIORITIES - 1)

\* index of the first Ready non-idle process of a queue, 0 when there is none
FirstStartable(q) ==
    LET I == { i \in 1..Len(q) : q[i].state = "Ready" /\ q[i].pid # 0 }
    IN  IF I = {} THEN 0 ELSE CHOOSE i \in I : \A j \in I : i <= j

\* start_first: from priority 10 down to 1, the first Ready non-idle process
RECURSIVE start_first_from(_, _)
start_first_from(s, priority) ==
    IF priority < 1 THEN [s EXCEPT !.panicked = TRUE]
    ELSE LET i == FirstStartable(s.run_queues[priority]) IN
         IF i # 0
         THEN LET proc == [s.run_queues[priority][i] EXCEPT !.state = "Running"]
              IN  [s EXCEPT !.run_queues[priority] = RemoveAt(@, i),
                            !.cr3 = activate(@, proc.address_space),
                            !.tss_rsp0 = set_kernel_stack(proc.kernel_stack),
                            !.remaining_ticks = quantum_for(proc.effective_priority),
                            !.running = Some(proc)]
         ELSE start_first_from(s, priority - 1)

start_first(s) == start_first_from(s, NUM_PRIORITIES - 1)

\* sys_exit (process/syscall.rs): the process whose state is Running is marked
\* Zombie where it is; the call then spins with interrupts enabled until the
\* timer takes the CPU away.  The Running process of this scheduler is the one
\* of the running slot
sys_exit(s) ==
    IF s.running # None /\ s.running[1].state = "Running"
    THEN [s EXCEPT !.running = Some([@[1] EXCEPT !.state = "Zombie"])]
    ELSE s

(***************************************************************************)
(* Scheduler calls                                                         *)
(***************************************************************************)
\* the processes of the run queues
Queued(s) ==
    UNION { { s.run_queues[p][i] : i \in 1..Len(s.run_queues[p]) } : p \in Priorities }

\* <<a, b>>: a and b are both Ready and a's effective priority is above b's
ReadyAbove(s) ==
    { <<a.pid, b.pid>> : <<a, b>> \in
        { ab \in Queued(s) \X Queued(s) :
            /\ ab[1].state = "Ready" /\ ab[2].state = "Ready"
            /\ ab[1].effective_priority > ab[2].effective_priority } }

RunningPid(s) == IF s.running = None THEN {} ELSE {s.running[1].pid}

\* pairs still waiting for their first member to run, after a step to s
Owed(old, s) ==
    { ab \in old \cup ReadyAbove(s) : ab[1] \notin RunningPid(s) }

(***************************************************************************)
(* System call entry (kernel/src/process/syscall.rs)                       *)
(***************************************************************************)
\* the fifteen registers syscall_entry saves, in the order of its pushes
push_order ==
    <<"rax", "rbx", "rcx", "rdx", "rsi", "rdi", "rbp",
      "r8", "r9", "r10", "r11", "r12", "r13", "r14", "r15">>

\* the order of the pops of syscall_entry
pop_order ==
    <<"rax", "rbx", "rcx", "rdx", "rsi", "rdi", "rbp",
      "r8", "r9", "r10", "r11", "r12", "r13", "r14", "r15">>

RegisterNames == { push_order[i] : i \in 1..Len(push_order) }

\* values a register takes in the model
RegisterValues == 0..1

\* at most this many registers are non-zero when user code loads another one
MaxNonZero == 2

\* SyscallNumber::Exit
SyscallNumber_Exit == 60

\* the kernel stack as a sequence, [rsp] first
push(stack, value) == <<value>> \o stack

\* `push rax` ... `push r15`, from the i-th push on
RECURSIVE push_registers(_, _, _)
push_registers(stack, r, i) ==
    IF i > Len(push_order) THEN stack
    ELSE push_registers(push(stack, r[push_order[i]]), r, i + 1)

\* struct SavedRegisters laid over the pushed block: r15 at [rsp], rax last
SavedRegisters(stack) ==
    [ r15 |-> stack[1],  r14 |-> stack[2],  r13 |-> stack[3],  r12 |-> stack[4],
      r11 |-> stack[5],  r10 |-> stack[6],  r9  |-> stack[7],  r8  |-> stack[8],
      rbp |-> stack[9],  rdi |-> stack[10], rsi |-> stack[11], rdx |-> stack[12],
      rcx |-> stack[13], rbx |-> stack[14], rax |-> stack[15] ]

\* `mov [rsp], rax` after the call: the return value goes to the top slot
store_return(stack, rax) == [stack EXCEPT ![1] = rax]

\* `pop rax` ... `pop r15`, from the i-th pop on
RECURSIVE pop_registers(_, _, _)
pop_registers(stack, r, i) ==
    IF i > Len(pop_order) THEN r
    ELSE pop_registers(Tail(stack), [r EXCEPT ![pop_order[i]] = Head(stack)], i + 1)

\* syscall_entry from `push rax` to `iretq`: the registers user mode sees
\* afterwards, when the handler returns ret
syscall_entry(r, ret) ==
    LET pushed == push_registers(<<>>, r, 1)
        called == [r EXCEPT !["rax"] = ret]
    IN  pop_registers(store_return(pushed, called["rax"]), called, 1)

InitSyscallVars ==
    /\ regs = [r \in RegisterNames |-> 0]
    /\ handler_ret = 0
    /\ cpu_op = "boot"

\* user code loads a value into a register
UserMov(r, value) ==
    /\ regs[r] # value
    /\ value # 0 => Cardinality({ x \in RegisterNames : regs[x] # 0 }) < MaxNonZero
    /\ regs' = [regs EXCEPT ![r] = value]
    /\ cpu_op' = "user"
    /\ UNCHANGED <<handler_ret, outside_syscall>>

\* int 0x80 from user mode, for a call that returns: every call but exit,
\* whose number the handler reads from the saved rax
Syscall(ret) ==
    /\ SavedRegisters(push_registers(<<>>, regs, 1)).rax # SyscallNumber_Exit
    /\ regs' = syscall_entry(regs, ret)
    /\ handler_ret' = ret
    /\ cpu_op' = "syscall"
    /\ UNCHANGED outside_syscall

NextSyscall ==
    \/ \E r \in RegisterNames, value \in RegisterValues : UserMov(r, value)
    \/ \E ret \in RegisterValues : Syscall(ret)

(***************************************************************************)
(* Interrupt flag and scheduler mutex in the system calls                  *)
(* (kernel/src/process/syscall.rs, kernel/src/process/timer_preempt.rs)    *)
(***************************************************************************)
\* the system calls of syscall_handler and the ways each can end
SyscallOutcomes ==
    [ read   |-> {"EFAULT", "ESRCH", "EBADF", "EIO", "ok"},
      write  |-> {"EFAULT", "ESRCH", "EBADF", "EIO", "ok"},
      open   |-> {"EFAULT", "EINVAL_utf8", "ENOENT", "ESRCH", "EINVAL_full", "ok"},
      close  |-> {"ESRCH", "EBADF", "ok"},
      yield  |-> {"ok"},
      getpid |-> {"ok"} ]

SyscallNames == DOMAIN SyscallOutcomes

\* outcomes decided before the handler touches the scheduler
BeforeLock == {"EFAULT", "EINVAL_utf8", "ENOENT"}

\* the cli, lock, unlock and sti a handler executes, in program order, up to
\* its return.  `let result = { let scheduler = SCHEDULER.lock(); ... };`
\* drops the guard at the end of the block, before the final sti; an early
\* `sti; return errno` inside the block drops it at the return, after the sti
handler_path(call, outcome) ==
    IF call = "yield" \/ outcome \in BeforeLock THEN <<"iretq">>
    ELSE IF outcome = "ok" THEN <<"cli", "lock", "unlock", "sti", "iretq">>
    ELSE <<"cli", "lock", "sti", "unlock", "iretq">>

InitIrqVars ==
    /\ rflags_if = TRUE
    /\ mutex = "free"
    /\ sys_path = <<>>
    /\ TICK = 0
    /\ spinning = FALSE

\* int 0x80 through the interrupt gate of vector 0x80: RFLAGS.IF is cleared and the
\* handler of the call starts
SyscallEnter(call, outcome) ==
    /\ ~spinning
    /\ sys_path = <<>>
    /\ rflags_if
    /\ sys_path' = handler_path(call, outcome)
    /\ rflags_if' = FALSE
    /\ UNCHANGED <<mutex, TICK, spinning, outside_irq>>

\* the next cli, lock, unlock, sti or iretq of the running handler
SyscallStep ==
    /\ ~spinning
    /\ sys_path # <<>>
    /\ LET ins == Head(sys_path) IN
        /\ rflags_if' = CASE ins = "cli" -> FALSE
                           [] ins \in {"sti", "iretq"} -> TRUE
                           [] OTHER -> rflags_if
        /\ mutex' = CASE ins = "lock" -> "syscall"
                       [] ins = "unlock" -> "free"
                       [] OTHER -> mutex
    /\ sys_path' = Tail(sys_path)
    /\ UNCHANGED <<TICK, spinning, outside_irq>>

\* timer_preempt_handler up to and including SCHEDULER.lock(): nine calls out
\* of ten return at once; the tenth takes the mutex, and spins for ever, with
\* interrupts off, when the code it interrupted holds it
TimerInterrupt ==
    /\ ~spinning
    /\ rflags_if
    /\ IF TICK + 1 < 10
       THEN TICK' = TICK + 1 /\ UNCHANGED spinning
       ELSE TICK' = 0 /\ spinning' = (mutex # "free")
    /\ UNCHANGED <<rflags_if, mutex, sys_path, outside_irq>>

NextIrq ==
    \/ \E call \in SyscallNames : \E outcome \in SyscallOutcomes[call] :
           SyscallEnter(call, outcome)
    \/ SyscallStep
    \/ TimerInterrupt

(***************************************************************************)
(* read, write, open, close (kernel/src/process/syscall.rs) on the         *)
(* FileDescriptorTable (kernel/src/process/file.rs)                        *)
(***************************************************************************)
\* width of an address and of a usize in the model; 64 in the source
ADDR_BITS == 10

WORD == Shl1(ADDR_BITS)

\* USER_SPACE_MAX of validate_user_buffer: the first address of the upper
\* half, 0x0000_8000_0000_0000 in the source
USER_SPACE_MAX == Shl1(ADDR_BITS - 1)

\* the length sys_open validates for a path
PATH_LEN == 256

EIO == -5
EBADF == -9
EFAULT == -14
EINVAL == -22
ENOENT == -2

MAX_FILES == 16

\* at most this many descriptors are open when open is called
MaxOpenFiles == 4

\* a validate_user_buffer without the overflow check: the end wraps around
validate_user_buffer_wrapping(addr, size) ==
    IF addr = 0 THEN EFAULT
    ELSE LET end == (addr + size) % WORD IN
         IF addr >= USER_SPACE_MAX \/ end > USER_SPACE_MAX THEN EFAULT ELSE 0

\* validate_user_buffer: 0 for Ok(()), the errno otherwise
validate_user_buffer(addr, size) ==
    IF addr = 0 THEN EFAULT
    ELSE IF addr + size >= WORD THEN EFAULT
    ELSE LET end == addr + size IN
         IF addr >= USER_SPACE_MAX \/ end > USER_SPACE_MAX THEN EFAULT ELSE 0

\* `fd as usize` for an i32
as_usize(fd) == IF fd < 0 THEN WORD + fd ELSE fd

\* FileDescriptorTable::new_with_stdio
new_with_stdio ==
    [fd \in 0..(MAX_FILES - 1) |->
        CASE fd = 0 -> "DevNull"
          [] fd \in {1, 2} -> "SerialConsole"
          [] OTHER -> "None"]

\* FileDescriptorTable::get_mut: the handle, or "Err" for BadFileDescriptor
fdt_get_mut(t, fd) ==
    IF fd >= MAX_FILES THEN "Err"
    ELSE IF t[fd] # "None" THEN t[fd] ELSE "Err"

\* FileDescriptorTable::allocate: [table, ret]; ret is Some(the first free
\* descriptor), or None when there is none
fdt_allocate(t, handle) ==
    LET free == { fd \in DOMAIN t : t[fd] = "None" } IN
    IF free = {} THEN [table |-> t, ret |-> None]
    ELSE LET fd == CHOOSE f \in free : \A g \in free : f <= g
         IN  [table |-> [t EXCEPT ![fd] = handle], ret |-> Some(fd)]

\* a close that reports a descriptor that is not open
fdt_close_checks_open(t, fd) ==
    IF fd >= MAX_FILES THEN [table |-> t, ret |-> "Err"]
    ELSE IF t[fd] = "None" THEN [table |-> t, ret |-> "Err"]
    ELSE [table |-> [t EXCEPT ![fd] = "None"], ret |-> "Ok"]

\* FileDescriptorTable::close: files[fd].take(); the close() of every handle
\* is the default Ok(())
fdt_close(t, fd) ==
    IF fd >= MAX_FILES THEN [table |-> t, ret |-> "Err"]
    ELSE [table |-> [t EXCEPT ![fd] = "None"], ret |-> "Ok"]

\* FileHandle::read of each device: [ret, touched]; touched says that the
\* bytes of the buffer were accessed
handle_read(handle, count) ==
    CASE handle = "DevNull" -> [ret |-> 0, touched |-> FALSE]
      [] handle = "DevZero" -> [ret |-> count, touched |-> count > 0]
      [] OTHER -> [ret |-> EIO, touched |-> FALSE]

\* FileHandle::write of each device
handle_write(handle, count) ==
    CASE handle = "SerialConsole" -> [ret |-> count, touched |-> count > 0]
      [] OTHER -> [ret |-> count, touched |-> FALSE]

\* the match on the path in sys_open: the handle, or "None" for ENOENT
open_device(path) ==
    CASE path = "/dev/null" -> "DevNull"
      [] path = "/dev/zero" -> "DevZero"
      [] path = "/dev/console" -> "SerialConsole"
      [] path = "/dev/fb" -> "FramebufferConsole"
      [] OTHER -> "None"

\* sys_read: [ret, files, touched]
sys_read(t, fd, buf, count) ==
    IF validate_user_buffer(buf, count) # 0
    THEN [ret |-> validate_user_buffer(buf, count), files |-> t, touched |-> FALSE]
    ELSE LET file == fdt_get_mut(t, as_usize(fd)) IN
         IF file = "Err" THEN [ret |-> EBADF, files |-> t, touched |-> FALSE]
         ELSE [ret |-> handle_read(file, count).ret, files |-> t,
               touched |-> handle_read(file, count).touched]

\* sys_write
sys_write(t, fd, buf, count) ==
    IF validate_user_buffer(buf, count) # 0
    THEN [ret |-> validate_user_buffer(buf, count), files |-> t, touched |-> FALSE]
    ELSE LET file == fdt_get_mut(t, as_usize(fd)) IN
         IF file = "Err" THEN [ret |-> EBADF, files |-> t, touched |-> FALSE]
         ELSE [ret |-> handle_write(file, count).ret, files |-> t,
               touched |-> handle_write(file, count).touched]

\* sys_open; path is the string found at path_ptr
sys_open(t, path_ptr, path) ==
    IF validate_user_buffer(path_ptr, PATH_LEN) # 0
    THEN [ret |-> validate_user_buffer(path_ptr, PATH_LEN), files |-> t, touched |-> FALSE]
    ELSE IF open_device(path) = "None"
    THEN [ret |-> ENOENT, files |-> t, touched |-> TRUE]
    ELSE LET a == fdt_allocate(t, open_device(path)) IN
         IF a.ret = None THEN [ret |-> EINVAL, files |-> t, touched |-> TRUE]
         ELSE [ret |-> a.ret[1], files |-> a.table, touched |-> TRUE]

\* sys_close
sys_close(t, fd) ==
    LET c == fdt_close(t, as_usize(fd)) IN
    IF c.ret = "Err" THEN [ret |-> EBADF, files |-> t, touched |-> FALSE]
    ELSE [ret |-> 0, files |-> c.table, touched |-> FALSE]

\* buffer addresses, lengths, descriptors and paths the calls are tried with
BufAddrs == {0, 1, USER_SPACE_MAX - PATH_LEN, USER_SPACE_MAX - PATH_LEN + 1,
             USER_SPACE_MAX, WORD - 1}
BufCounts == {0, 1, USER_SPACE_MAX, WORD - 1}
Fds == {-1, 1, 3, MAX_FILES, 99}
Paths == {"/dev/zero", "/nope"}

InitFdVars ==
    /\ files = new_with_stdio
    /\ fd_call = [call |-> "none", fd |-> 0, buf |-> 0, count |-> 0,
                  ret |-> 0, touched |-> FALSE]

\* what a call leaves behind for the caller: its arguments, the value in rax
\* and whether the bytes of the buffer were accessed
FdResult(call, fd, buf, count, r) ==
    [call |-> call, fd |-> fd, buf |-> buf, count |-> count,
     ret |-> r.ret, touched |-> r.touched]

SysRead(fd, buf, count) ==
    /\ files' = sys_read(files, fd, buf, count).files
    /\ fd_call' = FdResult("read", fd, buf, count, sys_read(files, fd, buf, count))
    /\ UNCHANGED outside_fd

SysWrite(fd, buf, count) ==
    /\ files' = sys_write(files, fd, buf, count).files
    /\ fd_call' = FdResult("write", fd, buf, count, sys_write(files, fd, buf, count))
    /\ UNCHANGED outside_fd

SysOpen(path_ptr, path) ==
    /\ Cardinality({ fd \in DOMAIN files : files[fd] # "None" }) < MaxOpenFiles
    /\ files' = sys_open(files, path_ptr, path).files
    /\ fd_call' = FdResult("open", 0, path_ptr, PATH_LEN, sys_open(files, path_ptr, path))
    /\ UNCHANGED outside_fd

SysClose(fd) ==
    /\ files' = sys_close(files, fd).files
    /\ fd_call' = FdResult("close", fd, 0, 0, sys_close(files, fd))
    /\ UNCHANGED outside_fd

NextFd ==
    \/ \E fd \in Fds, buf \in BufAddrs, count \in BufCounts : SysRead(fd, buf, count)
    \/ \E fd \in Fds, buf \in BufAddrs, count \in BufCounts : SysWrite(fd, buf, count)
    \/ \E path_ptr \in BufAddrs, path \in Paths : SysOpen(path_ptr, path)
    \/ \E fd \in Fds \cup {2} : SysClose(fd)

(***************************************************************************)
(* The page-fault error code filter (kernel/src/memory/demand_paging.rs)   *)
(***************************************************************************)
\* bits of the error code the CPU pushes: P, W/R, U/S, RSVD, I/D, PK, SS
ErrorCodeBits == 7

ErrorCodes == 0..(Shl1(ErrorCodeBits) - 1)

PF_PRESENT == Shl1(0)
PF_WRITE == Shl1(1)
PF_USER == Shl1(2)
PF_RESERVED == Shl1(3)

\* error_code & mask != 0 for a mask of one bit
BitSet(error_code, mask) == (error_code \div mask) % 2 = 1

\* a filter that tests the present bit before the privilege bit
is_demand_pageable_present_first(error_code) ==
    IF BitSet(error_code, PF_RESERVED) THEN "Reserved bit set in page table entry"
    ELSE IF BitSet(error_code, PF_PRESENT) THEN "Protection violation"
    ELSE IF ~BitSet(error_code, PF_USER) THEN "Kernel-mode page fault"
    ELSE "Ok"

\* is_demand_pageable: "Ok" or the reason of the Err
is_demand_pageable(error_code) ==
    IF BitSet(error_code, PF_RESERVED) THEN "Reserved bit set in page table entry"
    ELSE IF ~BitSet(error_code, PF_USER) THEN "Kernel-mode page fault"
    ELSE IF BitSet(error_code, PF_PRESENT) THEN "Protection violation"
    ELSE "Ok"

InitPfVars == pf = [error_code |-> 0, result |-> "none"]

\* the page fault handler passes the error code of a fault to the filter
IsDemandPageable(error_code) ==
    /\ pf' = [error_code |-> error_code, result |-> is_demand_pageable(error_code)]
    /\ UNCHANGED outside_pf

NextPf == \E error_code \in ErrorCodes : IsDemandPageable(error_code)

(***************************************************************************)
(* Address spaces: page tables (kernel/src/memory/page_table_manager.rs),  *)
(* VMAs (kernel/src/memory/vma.rs, address_space.rs), demand paging        *)
(* (kernel/src/memory/demand_paging.rs) and the exception handlers         *)
(* (kernel/src/init/devices.rs).                                           *)
(* A virtual address is [pml4, page, off]: the PML4 index (bits 47:39),    *)
(* the 27 bits 38:12 below it, and the offset in the page.                 *)
(***************************************************************************)
\* frames the buddy owns in this part of the model
MemFrames == 34

\* the usable region of the boot memory map
MemRegion == <<2097152, 2097152 + MemFrames * 4096>>

ENTRY_COUNT == 512
PAGE_SIZE == 4096

VAddr(pml4, page, off) == [pml4 |-> pml4, page |-> page, off |-> off]

\* USER_CODE_BASE = 0x40_0000 and USER_STACK_BASE = 0x7100_0000_0000
USER_CODE_BASE == VAddr(0, 1024, 0)
USER_STACK_BASE == VAddr(226, 0, 0)

pml4_index(va) == va.pml4

USER_PML4_ENTRIES == {pml4_index(USER_CODE_BASE), pml4_index(USER_STACK_BASE)}

is_user_pml4_entry(index) == index \in USER_PML4_ENTRIES

\* the four table indices of an address, root first
table_indices(va) ==
    << va.pml4,
       va.page \div (ENTRY_COUNT * ENTRY_COUNT),
       (va.page \div ENTRY_COUNT) % ENTRY_COUNT,
       va.page % ENTRY_COUNT >>

\* addr & !0xFFF
page_of(va) == [va EXCEPT !.off = 0]

\* start + n * 4096
add_pages(va, n) ==
    LET t == va.page + n IN
    [va EXCEPT !.pml4 = @ + t \div (ENTRY_COUNT * ENTRY_COUNT * ENTRY_COUNT),
               !.page = t % (ENTRY_COUNT * ENTRY_COUNT * ENTRY_COUNT)]

\* a < b for addresses
addr_lt(a, b) ==
    \/ a.pml4 < b.pml4
    \/ a.pml4 = b.pml4 /\ a.page < b.page
    \/ a.pml4 = b.pml4 /\ a.page = b.page /\ a.off < b.off

\* PageTableFlags
PRESENT == "PRESENT"
WRITABLE == "WRITABLE"
USER_ACCESSIBLE == "USER_ACCESSIBLE"

\* a page table with every entry unused (PageTable::zero)
zero_table == [i \in {} |-> 0]

PageTableEntry(frame, flags) == [frame |-> frame, flags |-> flags]

\* table[index] = entry
set_entry(tables, table, index, entry) ==
    [tables EXCEPT ![table] = (index :> entry) @@ @]

\* BuddyFrameAllocator::allocate_frame
allocate_frame(buddy) == allocate(buddy, 12)

\* Mapper::map_to of the x86_64 crate on the table rooted at `table`:
\* a missing table on the way is allocated from the buddy, zeroed and entered
\* with the PRESENT, WRITABLE and USER_ACCESSIBLE bits of `flags`; the last
\* level refuses an entry that is in use.  m is [buddy, tables]; the result
\* adds ret: "Ok", "FrameAllocationFailed" or "PageAlreadyMapped"
RECURSIVE map_to_level(_, _, _, _, _, _)

\* the table that was missing at `level`, given the buddy's answer a
create_next_table(m, a, table, indices, level, frame, flags) ==
    IF a.ret = None
    THEN [buddy |-> a.state, tables |-> m.tables, ret |-> "FrameAllocationFailed"]
    ELSE map_to_level(
             [buddy |-> a.state,
              tables |-> set_entry((a.ret[1] :> zero_table) @@ m.tables, table, indices[level],
                             PageTableEntry(a.ret[1],
                                 flags \cap {PRESENT, WRITABLE, USER_ACCESSIBLE}))],
             a.ret[1], indices, level + 1, frame, flags)

map_to_level(m, table, indices, level, frame, flags) ==
    IF level = 4
    THEN IF indices[level] \in DOMAIN m.tables[table]
         THEN [buddy |-> m.buddy, tables |-> m.tables, ret |-> "PageAlreadyMapped"]
         ELSE [buddy |-> m.buddy,
               tables |-> set_entry(m.tables, table, indices[level], PageTableEntry(frame, flags)),
               ret |-> "Ok"]
    ELSE IF indices[level] \in DOMAIN m.tables[table]
    THEN map_to_level(m, m.tables[table][indices[level]].frame, indices, level + 1, frame, flags)
    ELSE create_next_table(m, allocate_frame(m.buddy), table, indices, level, frame, flags)

map_to(m, root, page, frame, flags) ==
    map_to_level(m, root, table_indices(page), 1, frame, flags)

\* the walk the MMU does from the root in CR3: None when an entry on the way
\* is not present, else Some of the frame with the flags that hold at every
\* level
RECURSIVE translate_level(_, _, _, _, _)
translate_level(tables, table, indices, level, flags) ==
    LET index == indices[level] IN
    IF index \notin DOMAIN tables[table] THEN None
    ELSE LET e == tables[table][index] IN
         IF level = 4 THEN Some(PageTableEntry(e.frame, flags \cap e.flags))
         ELSE translate_level(tables, e.frame, indices, level + 1, flags \cap e.flags)

translate(tables, root, va) ==
    translate_level(tables, root, table_indices(va), 1, {PRESENT, WRITABLE, USER_ACCESSIBLE})

\* does the MMU let the access through?
access_ok(tables, root, va, write, ring) ==
    /\ translate(tables, root, va) # None
    /\ ring = 3 => USER_ACCESSIBLE \in translate(tables, root, va)[1].flags
    /\ (write /\ ring = 3) => WRITABLE \in translate(tables, root, va)[1].flags

\* the error code the CPU pushes for a faulting access
page_fault_error_code(tables, root, va, write, ring) ==
    (IF translate(tables, root, va) # None THEN PF_PRESENT ELSE 0)
    + (IF write THEN PF_WRITE ELSE 0)
    + (IF ring = 3 THEN PF_USER ELSE 0)

\* the table frames reached from `table`, which is `level` levels above the
\* pages (4 for a PML4 frame); the table itself included
RECURSIVE table_frames_below(_, _, _)
table_frames_below(tables, table, level) ==
    IF level = 1 THEN {table}
    ELSE {table} \cup UNION { table_frames_below(tables, tables[table][i].frame, level - 1) :
                              i \in DOMAIN tables[table] }

\* the pages mapped under root entry `index`, as <<va, entry>>
mapped_pages_under(tables, root, index) ==
    IF index \notin DOMAIN tables[root] THEN {}
    ELSE LET p3 == tables[root][index].frame IN
         UNION { UNION { { << VAddr(index, (i3 * ENTRY_COUNT + i2) * ENTRY_COUNT + i1, 0),
                              tables[tables[tables[p3][i3].frame][i2].frame][i1] >> :
                            i1 \in DOMAIN tables[tables[tables[p3][i3].frame][i2].frame] } :
                         i2 \in DOMAIN tables[tables[p3][i3].frame] } :
                 i3 \in DOMAIN tables[p3] }

(***************************************************************************)
(* VMAs                                                                    *)
(***************************************************************************)
MAX_VMAS_PER_PROCESS == 16

Anonymous == "Anonymous"
Code == "Code"

Vma(start, size_pages, flags, kind) ==
    [start |-> start, size_pages |-> size_pages, flags |-> flags, kind |-> kind]

\* Vma::end, Vma::contains
vma_end(vma) == add_pages(vma.start, vma.size_pages)

vma_contains(vma, addr) == ~addr_lt(addr, vma.start) /\ addr_lt(addr, vma_end(vma))

\* VmaList::new
VmaList_new == [i \in 1..MAX_VMAS_PER_PROCESS |-> None]

\* an add that refuses a VMA that overlaps a registered one
VmaList_add_checks_overlap(list, vma) ==
    LET free == { i \in DOMAIN list : list[i] = None }
        clash == \E i \in DOMAIN list :
                    /\ list[i] # None
                    /\ addr_lt(list[i][1].start, vma_end(vma))
                    /\ addr_lt(vma.start, vma_end(list[i][1]))
    IN  IF free = {} \/ clash THEN [list |-> list, ret |-> "Err"]
        ELSE [list |-> [list EXCEPT ![CHOOSE i \in free : \A j \in free : i <= j] = Some(vma)],
              ret |-> "Ok"]

\* VmaList::add: the first free slot; Err only when the list is full
VmaList_add(list, vma) ==
    LET free == { i \in DOMAIN list : list[i] = None } IN
    IF free = {} THEN [list |-> list, ret |-> "Err"]
    ELSE [list |-> [list EXCEPT ![CHOOSE i \in free : \A j \in free : i <= j] = Some(vma)],
          ret |-> "Ok"]

\* a find that returns the last registered VMA, whatever the address
VmaList_find_last_registered(list, addr) ==
    LET hits == { i \in DOMAIN list : list[i] # None } IN
    IF hits = {} THEN None
    ELSE list[CHOOSE i \in hits : \A j \in hits : i >= j]

\* VmaList::find: the first registered VMA that contains addr
VmaList_find(list, addr) ==
    LET hits == { i \in DOMAIN list : list[i] # None /\ vma_contains(list[i][1], addr) } IN
    IF hits = {} THEN None
    ELSE list[CHOOSE i \in hits : \A j \in hits : i <= j]

\* the VMAs registered in a list
Vmas(list) == { list[i][1] : i \in { j \in DOMAIN list : list[j] # None } }

(***************************************************************************)
(* OwnedPageTable and demand paging                                        *)
(***************************************************************************)
\* a PML4 that takes every kernel entry
new_pml4_copies_all(kernel_pml4) == kernel_pml4

\* the PML4 new_user fills: the kernel's entries other than the user-owned
new_pml4(kernel_pml4) ==
    [i \in { j \in DOMAIN kernel_pml4 : ~is_user_pml4_entry(j) } |-> kernel_pml4[i]]

\* new_user, given the buddy's answer a for the PML4 frame
new_user_in(m, a, cr3) ==
    IF a.ret = None THEN [buddy |-> a.state, tables |-> m.tables, ret |-> None]
    ELSE [buddy |-> a.state,
          tables |-> (a.ret[1] :> new_pml4(m.tables[cr3])) @@ m.tables,
          ret |-> a.ret]

\* OwnedPageTable::new_user: a zeroed PML4 frame with the kernel's entries
\* other than the user-owned ones; ret is Some(frame) or None
new_user(m, cr3) == new_user_in(m, allocate(m.buddy, 12), cr3)

\* the result of map_user_page from the result r of map_to
mapped_frame(r, frame) ==
    [buddy |-> r.buddy, tables |-> r.tables, ret |-> r.ret, frame |-> frame]

\* map_user_page, given the buddy's answer a for the data frame
map_user_page_in(m, a, root, page, flags) ==
    IF a.ret = None
    THEN [buddy |-> a.state, tables |-> m.tables, ret |-> "FrameAllocationFailed", frame |-> 0]
    ELSE mapped_frame(map_to([buddy |-> a.state, tables |-> m.tables], root, page,
                             a.ret[1], flags),
                      a.ret[1])

\* OwnedPageTable::map_user_page: a data frame from the buddy, then map_to;
\* the result carries the frame
map_user_page(m, root, page, flags) ==
    map_user_page_in(m, allocate_frame(m.buddy), root, page, flags)

\* the result of map_demand_page from the result r of map_to
demand_mapped(r, data) ==
    [buddy |-> r.buddy, tables |-> r.tables, data |-> data,
     ret |-> IF r.ret = "Ok" THEN "Ok" ELSE "map_to failed"]

\* a map_demand_page that leaves the frame as the buddy returned it
map_demand_page_in_no_zero(m, a, root, fault_addr, vma) ==
    IF a.ret = None THEN [m EXCEPT !.buddy = a.state, !.ret = "frame allocation failed"]
    ELSE demand_mapped(map_to([buddy |-> a.state, tables |-> m.tables], root,
                              page_of(fault_addr), a.ret[1], vma.flags),
                       m.data)

\* map_demand_page past the kind test, given the buddy's answer a: the
\* frame is zeroed, then mapped
map_demand_page_in(m, a, root, fault_addr, vma) ==
    IF a.ret = None THEN [m EXCEPT !.buddy = a.state, !.ret = "frame allocation failed"]
    ELSE demand_mapped(map_to([buddy |-> a.state, tables |-> m.tables], root,
                              page_of(fault_addr), a.ret[1], vma.flags),
                       (a.ret[1] :> "zero") @@ m.data)

\* map_demand_page on the page table in CR3; m is [buddy, tables, data, ret]
map_demand_page(m, root, fault_addr, vma) ==
    IF vma.kind = Code THEN [m EXCEPT !.ret = "Code page not present"]
    ELSE map_demand_page_in(m, allocate_frame(m.buddy), root, fault_addr, vma)

(***************************************************************************)
(* init::processes                                                         *)
(***************************************************************************)
STACK_PAGES == 16

\* user_stack_base of the i-th user process: USER_STACK_BASE + i * 0x10000
user_stack_base(i) == add_pages(USER_STACK_BASE, i * 16)

code_vma == Vma(USER_CODE_BASE, 1, {PRESENT, USER_ACCESSIBLE}, Code)

stack_vma(i) ==
    Vma(user_stack_base(i), STACK_PAGES, {PRESENT, WRITABLE, USER_ACCESSIBLE}, Anonymous)

\* step 3 of create_user_processes: the two VMAs
register_vmas(i) == VmaList_add(VmaList_add(VmaList_new, code_vma).list, stack_vma(i))

\* steps 2 and 3, given the result c of mapping the code page
code_mapped(c, data, root, i) ==
    IF c.ret # "Ok"
    THEN [buddy |-> c.buddy, tables |-> c.tables, data |-> data,
          ret |-> "Failed to map code page", root |-> root, vmas |-> VmaList_new]
    ELSE [buddy |-> c.buddy, tables |-> c.tables, data |-> (c.frame :> "code") @@ data,
          ret |-> IF register_vmas(i).ret = "Ok" THEN "Ok" ELSE "Failed to register VMA",
          root |-> root, vmas |-> register_vmas(i).list]

\* steps 1 to 3, given the result n of new_user
address_space_created(n, data, i) ==
    IF n.ret = None
    THEN [buddy |-> n.buddy, tables |-> n.tables, data |-> data,
          ret |-> "Failed to create user address space", root |-> 0, vmas |-> VmaList_new]
    ELSE code_mapped(map_user_page(n, n.ret[1], page_of(USER_CODE_BASE),
                                   {PRESENT, USER_ACCESSIBLE}),
                     data, n.ret[1], i)

\* steps 1 to 3 of create_user_processes for the i-th process: new_user, the
\* code page mapped and filled, the two VMAs registered.  ret is "Ok" or the
\* expect() that failed
create_address_space(m, cr3, i) == address_space_created(new_user(m, cr3), m.data, i)

(***************************************************************************)
(* Boot state of memory and the steps of the memory model                  *)
(***************************************************************************)
\* the page tables the bootloader leaves in CR3: PML4 entry 2 (kernel code),
\* entry 5 (physical memory window) and an entry 0 of the bootloader's own,
\* each with one page below it; all supervisor-only.  The frames lie below
\* the usable region
BootTables ==
    LET T(k) == PageTableEntry(k * PAGE_SIZE, {PRESENT, WRITABLE}) IN
       (BOOT_PML4 :> (0 :> T(1) @@ 2 :> T(4) @@ 5 :> T(7)))
    @@ (1 * PAGE_SIZE :> (0 :> T(2))) @@ (2 * PAGE_SIZE :> (0 :> T(3)))
    @@ (3 * PAGE_SIZE :> (16 :> T(10)))
    @@ (4 * PAGE_SIZE :> (0 :> T(5))) @@ (5 * PAGE_SIZE :> (0 :> T(6)))
    @@ (6 * PAGE_SIZE :> (0 :> T(11)))
    @@ (7 * PAGE_SIZE :> (0 :> T(8))) @@ (8 * PAGE_SIZE :> (0 :> T(9)))
    @@ (9 * PAGE_SIZE :> (0 :> T(12)))

\* code segment selectors of the trap frames: ring 0 and ring 3
KERNEL_CS == 8
USER_CS == 35

\* sf.code_segment & 0x3
cpl(code_segment) == code_segment % 4

NULL_ADDR == VAddr(0, 0, 0)

NoFault ==
    [kind |-> "none", code_segment |-> KERNEL_CS, va |-> NULL_ADDR, write |-> FALSE,
     error_code |-> 0, outcome |-> "none", pid |-> 0]

InitMemVars ==
    /\ PAGE_TABLES = BootTables
    /\ frame_data = [f \in {} |-> "zero"]
    /\ SPACES = (BOOT_PML4 :> VmaList_new)
    /\ fault = NoFault
    /\ kernel_panic = FALSE

(***************************************************************************)
(* AddressSpace::add_vma on one address space                              *)
(***************************************************************************)
\* AddressSpace::add_vma
add_vma(list, vma) == VmaList_add(list, vma)

\* number of add_vma calls followed
MaxVmaCalls == 3

\* VMAs handed to add_vma: the code page, the stack of process 0, and
\* regions that start inside or next to that stack
VmaStarts == {USER_CODE_BASE, USER_STACK_BASE, add_pages(USER_STACK_BASE, 1),
              add_pages(USER_STACK_BASE, STACK_PAGES)}

VmaSizes == {1, STACK_PAGES}

InitVmaVars ==
    /\ vmas = VmaList_new
    /\ vma_ret = None

AddVma(start, size_pages, kind) ==
    /\ Cardinality({ i \in DOMAIN vmas : vmas[i] # None }) < MaxVmaCalls
    /\ LET r == add_vma(vmas, Vma(start, size_pages, {PRESENT, USER_ACCESSIBLE}, kind))
       IN  /\ vmas' = r.list
           /\ vma_ret' = Some(r.ret)
    /\ UNCHANGED outside_vma

NextVma ==
    \E start \in VmaStarts, size_pages \in VmaSizes, kind \in {Anonymous, Code} :
        AddVma(start, size_pages, kind)

(***************************************************************************)
(* keyboard_buffer.rs: the keyboard ring                                   *)
(***************************************************************************)
\* slots of the ring (128 in the source)
BUFFER_SIZE == 3

\* number of push calls followed
MaxPushes == 6

\* characters the keyboard handler pushes
Keys == {"a", "b"}

\* (index + 1) % BUFFER_SIZE
next_index(index) == (index + 1) % BUFFER_SIZE

\* KeyboardBuffer::new
KeyboardBuffer_new ==
    [buffer |-> [i \in 0..(BUFFER_SIZE - 1) |-> None], read_index |-> 0, write_index |-> 0]

\* a push that never finds the ring full
push_is_full_never(write, read) == FALSE

\* push: next_write == read
push_is_full(write, read) == next_index(write) = read

\* pop: read == write
pop_is_empty(read, write) == read = write

\* ptr.add(index).write(Some(c))
write_slot(buffer, index, c) == [buffer EXCEPT ![index] = Some(c)]

PushIdle == [pc |-> "idle", write |-> 0, read |-> 0, c |-> None]

PopIdle == [pc |-> "idle", read |-> 0, write |-> 0, c |-> None]

NoReturn == [op |-> "none", value |-> None]

InitKbVars ==
    /\ KEYBOARD_BUFFER = KeyboardBuffer_new
    /\ kb_push = PushIdle
    /\ kb_pop = PopIdle
    /\ kb_pushes = 0
    /\ kb_accepted = <<>>
    /\ kb_popped = <<>>
    /\ kb_ret = NoReturn

\* push, line 27: let write = self.write_index.load(Acquire)
PushLoadWrite(c) ==
    /\ kb_push.pc = "idle"
    /\ kb_pushes < MaxPushes
    /\ kb_pushes' = kb_pushes + 1
    /\ kb_push' = [pc |-> "load_read", write |-> KEYBOARD_BUFFER.write_index, read |-> 0,
                   c |-> Some(c)]
    /\ UNCHANGED <<KEYBOARD_BUFFER, kb_pop, kb_accepted, kb_popped, kb_ret>>
    /\ UNCHANGED outside_kb

\* push, lines 28-35: let read = self.read_index.load(Acquire); the
\* character is dropped when next_write == read
PushLoadRead ==
    /\ kb_push.pc = "load_read"
    /\ LET read == KEYBOARD_BUFFER.read_index IN
       IF push_is_full(kb_push.write, read)
       THEN /\ kb_push' = PushIdle
            /\ kb_ret' = [op |-> "push", value |-> None]
       ELSE /\ kb_push' = [kb_push EXCEPT !.pc = "write_slot", !.read = read]
            /\ UNCHANGED kb_ret
    /\ UNCHANGED <<KEYBOARD_BUFFER, kb_pop, kb_pushes, kb_accepted, kb_popped>>
    /\ UNCHANGED outside_kb

\* push, lines 38-41: ptr.add(write).write(Some(c))
PushWriteSlot ==
    /\ kb_push.pc = "write_slot"
    /\ KEYBOARD_BUFFER' = [KEYBOARD_BUFFER EXCEPT
                              !.buffer = write_slot(@, kb_push.write, kb_push.c[1])]
    /\ kb_push' = [kb_push EXCEPT !.pc = "publish"]
    /\ UNCHANGED <<kb_pop, kb_pushes, kb_accepted, kb_popped, kb_ret>>
    /\ UNCHANGED outside_kb

\* push, line 44: self.write_index.store(next_write, Release)
PushPublish ==
    /\ kb_push.pc = "publish"
    /\ KEYBOARD_BUFFER' = [KEYBOARD_BUFFER EXCEPT !.write_index = next_index(kb_push.write)]
    /\ kb_accepted' = Append(kb_accepted, kb_push.c[1])
    /\ kb_ret' = [op |-> "push", value |-> kb_push.c]
    /\ kb_push' = PushIdle
    /\ UNCHANGED <<kb_pop, kb_pushes, kb_popped>>
    /\ UNCHANGED outside_kb

\* pop, line 49: let read = self.read_index.load(Acquire)
PopLoadRead ==
    /\ kb_pop.pc = "idle"
    /\ kb_pop' = [pc |-> "load_write", read |-> KEYBOARD_BUFFER.read_index, write |-> 0,
                  c |-> None]
    /\ UNCHANGED <<KEYBOARD_BUFFER, kb_push, kb_pushes, kb_accepted, kb_popped, kb_ret>>
    /\ UNCHANGED outside_kb

\* pop, lines 50-55: let write = self.write_index.load(Acquire); None when
\* read == write
PopLoadWrite ==
    /\ kb_pop.pc = "load_write"
    /\ LET write == KEYBOARD_BUFFER.write_index IN
       IF pop_is_empty(kb_pop.read, write)
       THEN /\ kb_pop' = PopIdle
            /\ kb_ret' = [op |-> "pop", value |-> None]
       ELSE /\ kb_pop' = [kb_pop EXCEPT !.pc = "read_slot", !.write = write]
            /\ UNCHANGED kb_ret
    /\ UNCHANGED <<KEYBOARD_BUFFER, kb_push, kb_pushes, kb_accepted, kb_popped>>
    /\ UNCHANGED outside_kb

\* pop, lines 58-61: let c = ptr.add(read).read()
PopReadSlot ==
    /\ kb_pop.pc = "read_slot"
    /\ kb_pop' = [kb_pop EXCEPT !.pc = "store_read", !.c = KEYBOARD_BUFFER.buffer[kb_pop.read]]
    /\ UNCHANGED <<KEYBOARD_BUFFER, kb_push, kb_pushes, kb_accepted, kb_popped, kb_ret>>
    /\ UNCHANGED outside_kb

\* pop, lines 63-66: self.read_index.store(next_read, Release); c is returned
PopStoreRead ==
    /\ kb_pop.pc = "store_read"
    /\ KEYBOARD_BUFFER' = [KEYBOARD_BUFFER EXCEPT !.read_index = next_index(kb_pop.read)]
    /\ kb_ret' = [op |-> "pop", value |-> kb_pop.c]
    /\ kb_popped' = IF kb_pop.c = None THEN kb_popped ELSE Append(kb_popped, kb_pop.c[1])
    /\ kb_pop' = PopIdle
    /\ UNCHANGED <<kb_push, kb_pushes, kb_accepted>>
    /\ UNCHANGED outside_kb

NextKb ==
    \/ \E c \in Keys : PushLoadWrite(c)
    \/ PushLoadRead
    \/ PushWriteSlot
    \/ PushPublish
    \/ PopLoadRead
    \/ PopLoadWrite
    \/ PopReadSlot
    \/ PopStoreRead

(***************************************************************************)
(* process/timer_preempt.rs: the handler behind IDT vector 32, with        *)
(* start_first_process (process/mod.rs) and sys_exit (process/syscall.rs)  *)
(***************************************************************************)
Kernel == "Kernel"
User == "User"

\* the processes of init::processes::init_all, in creation order, all Ready
BootProcesses ==
    << [pid |-> 0, state |-> "Ready", privilege |-> Kernel],
       [pid |-> 1, state |-> "Ready", privilege |-> User],
       [pid |-> 2, state |-> "Ready", privilege |-> User] >>

\* index of the first process that satisfies Test, 0 when there is none
FirstIndex(list, Test(_)) ==
    IF \E i \in 1..Len(list) : Test(list[i])
    THEN CHOOSE i \in 1..Len(list) : Test(list[i]) /\ \A j \in 1..(i - 1) : ~Test(list[j])
    ELSE 0

\* start_first_process: the first Ready process other than pid 0 becomes
\* Running and current
start_first_process(s) ==
    LET i == FirstIndex(s.processes, LAMBDA p : p.state = "Ready" /\ p.pid # 0)
    IN  [processes |-> [s.processes EXCEPT ![i].state = "Running"],
         current |-> Some(s.processes[i].pid)]

\* sys_exit: the first Running process of the list becomes Zombie
exit_marks_zombie(s) ==
    LET i == FirstIndex(s.processes, LAMBDA p : p.state = "Running")
    IN  IF i = 0 THEN s ELSE [s EXCEPT !.processes[i].state = "Zombie"]

\* timer_preempt_handler, lines 84-93: the trap frame of the current process
\* is saved and its state set to Ready
save_current(s) ==
    LET i == IF s.current = None THEN 0
             ELSE FirstIndex(s.processes, LAMBDA p : p.pid = s.current[1])
    IN  IF i = 0 THEN s ELSE [s EXCEPT !.processes[i].state = "Ready"]

\* timer_preempt_handler, lines 95-125: `for _ in 0..len`, each turn pops
\* the front process and pushes it on the back; a Ready one becomes Running
\* and current, and the loop ends when that one is a user process
RECURSIVE find_next(_, _)
find_next(s, turns) ==
    IF turns = 0 THEN s
    ELSE LET proc == Head(s.processes)
             rest == Tail(s.processes)
         IN  IF proc.state = "Ready"
             THEN LET t == [processes |-> Append(rest, [proc EXCEPT !.state = "Running"]),
                            current |-> Some(proc.pid)]
                  IN  IF proc.privilege = User THEN t ELSE find_next(t, turns - 1)
             ELSE find_next([s EXCEPT !.processes = Append(rest, proc)], turns - 1)

\* timer_preempt_handler past the tick count
timer_preempt_handler(s) ==
    find_next(save_current(s), Len(s.processes))

InitPreemptVars ==
    /\ processes = BootProcesses
    /\ current = None
    /\ PREEMPT_TICK = 0
    /\ exited = {}

StartFirstProcess ==
    /\ current = None
    /\ LET s == start_first_process([processes |-> processes, current |-> current])
       IN  processes' = s.processes /\ current' = s.current
    /\ UNCHANGED <<PREEMPT_TICK, exited>>
    /\ UNCHANGED outside_preempt

\* int 0x80 with rax = 60 from the process on the CPU; it then spins in hlt
PreemptSysExit ==
    /\ current # None
    /\ current[1] \notin exited
    /\ \E i \in 1..Len(processes) :
          /\ processes[i].pid = current[1]
          /\ processes[i].state = "Running"
          /\ processes[i].privilege = User
    /\ processes' = exit_marks_zombie([processes |-> processes, current |-> current]).processes
    /\ exited' = exited \cup {current[1]}
    /\ UNCHANGED <<current, PREEMPT_TICK>>
    /\ UNCHANGED outside_preempt

\* the timer interrupt: nine calls out of ten return current_tf at once
TimerPreempt ==
    /\ current # None
    /\ IF PREEMPT_TICK + 1 < 10
       THEN PREEMPT_TICK' = PREEMPT_TICK + 1 /\ UNCHANGED <<processes, current>>
       ELSE /\ PREEMPT_TICK' = 0
            /\ LET s == timer_preempt_handler([processes |-> processes, current |-> current])
               IN  processes' = s.processes /\ current' = s.current
    /\ UNCHANGED exited
    /\ UNCHANGED outside_preempt

NextPreempt ==
    \/ StartFirstProcess
    \/ PreemptSysExit
    \/ TimerPreempt

(***************************************************************************)
(* Registers across a switch: the timer trampoline                         *)
(* (process/timer_preempt.rs), Scheduler::switch_to_next and               *)
(* kill_current_user_process (init/devices.rs)                             *)
(***************************************************************************)
\* the fields of TrapFrame in declaration order: offsets 0, 8, ... of the
\* frame in memory
TrapFrameFields ==
    <<"rax", "rbx", "rcx", "rdx", "rsi", "rdi", "rbp",
      "r8", "r9", "r10", "r11", "r12", "r13", "r14", "r15",
      "rip", "cs", "rflags", "rsp", "ss">>

\* the fields iretq consumes, pushed by the CPU on an interrupt
IretFields == {"rip", "cs", "rflags", "rsp", "ss"}

AllRegisters == { TrapFrameFields[i] : i \in 1..Len(TrapFrameFields) }

\* the pushes of timer_interrupt_entry, first to last, and its pops
timer_push_order ==
    <<"rax", "rbx", "rcx", "rdx", "rsi", "rdi", "rbp",
      "r8", "r9", "r10", "r11", "r12", "r13", "r14", "r15">>

timer_pop_order ==
    <<"r15", "r14", "r13", "r12", "r11", "r10", "r9", "r8",
      "rbp", "rdi", "rsi", "rdx", "rcx", "rbx", "rax">>

\* the pops of trapret, first to last
trapret_pop_order ==
    <<"rax", "rbx", "rcx", "rdx", "rsi", "rdi", "rbp",
      "r8", "r9", "r10", "r11", "r12", "r13", "r14", "r15">>

\* position of an element in a sequence without repetition
IndexOf(seq, x) == CHOOSE i \in 1..Len(seq) : seq[i] = x

\* the register values are tagged: <<pid, n>> is what process pid computed in
\* its n-th stretch of execution, <<0, 0>> the zero of a fresh TrapFrame
ZeroValue == <<0, 0>>

\* TrapFrame::new_user / new_kernel: general registers zero, the iretq
\* fields those of the process
TrapFrame_new(pid) ==
    [f \in AllRegisters |-> IF f \in IretFields THEN <<pid, 0>> ELSE ZeroValue]

\* the frame the entry of the timer interrupt leaves on the stack, read as a
\* TrapFrame: the CPU pushed the iretq fields, the k-th push from the end is
\* at offset 8 * (k - 1)
pushed_frame(registers) ==
    [f \in AllRegisters |->
        IF f \in IretFields THEN registers[f]
        ELSE registers[timer_push_order[Len(timer_push_order) + 1 - IndexOf(TrapFrameFields, f)]]]

\* what a sequence of pops followed by iretq loads from the frame at rsp:
\* the k-th pop reads offset 8 * (k - 1)
popped_registers(frame, pops) ==
    [r \in AllRegisters |->
        IF r \in IretFields THEN frame[r]
        ELSE frame[TrapFrameFields[IndexOf(pops, r)]]]

\* kill_and_switch's IretFrame of the next process
IretFrame(frame) == [f \in IretFields |-> frame[f]]

\* kill_current_user_process: the five fields of the exception stack frame are
\* overwritten; the handler's epilogue restores the general registers it found
redirected(registers, frame) ==
    [r \in AllRegisters |-> IF r \in IretFields THEN IretFrame(frame)[r] ELSE registers[r]]

\* stretches of execution per process
MaxRuns == 2

ResumePids == 0..Len(BootPriorities)

NotResumed == [pid |-> None, via |-> "none", observed |-> <<>>, frame |-> <<>>]

InitResumeVars ==
    /\ TRAPFRAMES = [pid \in ResumePids |-> TrapFrame_new(pid)]
    /\ cpu_regs = [r \in AllRegisters |-> ZeroValue]
    /\ resumed = NotResumed

(***************************************************************************)
(* SlabAllocator (kernel/src/allocator/slab.rs)                            *)
(***************************************************************************)
SLAB_SIZES == <<8, 16, 32, 64, 128, 256, 512, 1024, 2048>>
NUM_SLABS == Len(SLAB_SIZES)
MAX_SLAB_SIZE == 2048
PAGE_ORDER == 12

Layout(size, align) == [size |-> size, align |-> align]

\* usize::next_power_of_two, for n >= 1
RECURSIVE next_power_of_two_from(_, _)
next_power_of_two_from(n, p) == IF p >= n THEN p ELSE next_power_of_two_from(n, 2 * p)

next_power_of_two(n) == next_power_of_two_from(n, 1)

\* a size_to_buddy_order that rounds the page count down
size_to_buddy_order_floor(size) ==
    IF size \div PAGE_SIZE <= 1 THEN PAGE_ORDER
    ELSE PAGE_ORDER + highest_bit(size \div PAGE_SIZE)

\* size_to_buddy_order
size_to_buddy_order(size) ==
    LET pages == (size + PAGE_SIZE - 1) \div PAGE_SIZE
    IN  IF pages = 0 THEN PAGE_ORDER
        ELSE IF pages = 1 THEN PAGE_ORDER
        ELSE PAGE_ORDER + trailing_zeros(next_power_of_two(pages))

\* a slab_index that wants a class strictly larger than the size
slab_index_strict(size) ==
    IF \E i \in 1..NUM_SLABS : SLAB_SIZES[i] > size
    THEN Some((CHOOSE i \in 1..NUM_SLABS :
                  SLAB_SIZES[i] > size /\ \A j \in 1..(i - 1) : ~(SLAB_SIZES[j] > size)) - 1)
    ELSE None

\* SlabAllocator::slab_index: SLAB_SIZES.iter().position(|&s| s >= size),
\* counted from 0
slab_index(size) ==
    IF \E i \in 1..NUM_SLABS : SLAB_SIZES[i] >= size
    THEN Some((CHOOSE i \in 1..NUM_SLABS :
                  SLAB_SIZES[i] >= size /\ \A j \in 1..(i - 1) : SLAB_SIZES[j] < size) - 1)
    ELSE None

\* SLAB_SIZES[idx]
class_size(idx) == SLAB_SIZES[idx + 1]

\* the upper half of crate::memory::physical_memory_offset(), the value the
\* bootloader passed; its lower half is zero
PHYS_OFFSET_HIGH == <<128, 1, 0, 0>>

\* a pointer into the physical-memory window: phys_offset + phys, kept as the
\* two halves of the 64-bit address
VirtPtr(phys) == [high |-> PHYS_OFFSET_HIGH, low |-> phys]

\* virt.as_u64() - phys_offset.as_u64()
phys_of(ptr) == ptr.low

\* the little-endian bytes of the low half of an address
low_bytes(n) == << n % 256, (n \div 256) % 256, (n \div 65536) % 256, (n \div 16777216) % 256 >>

\* the 8 bytes of an Option<NonNull<FreeObject>>: None is the null pointer
pointer_word(next) ==
    IF next = None THEN <<0, 0, 0, 0, 0, 0, 0, 0>>
    ELSE low_bytes(next[1].low) \o next[1].high

\* the Option<NonNull<FreeObject>> read back from 8 bytes
word_pointer(word) ==
    IF word = <<0, 0, 0, 0, 0, 0, 0, 0>> THEN None
    ELSE Some([high |-> SubSeq(word, 5, 8),
               low |-> word[1] + 256 * word[2] + 65536 * word[3] + 16777216 * (word[4] % 128)])

POISON_ALLOCATED == 170
POISON_FREED == 221

Filled(byte) == [i \in 1..8 |-> byte]

\* memory is followed at the first 8 bytes of every SampleStride-th address:
\* the start and the middle of every object of the classes the calls use
SampleStride == class_size(5)

SampleAddrs(r) == { a \in r[1]..(r[2] - 1) : a % SampleStride = 0 }

read_word(mem, addr) == IF addr \in DOMAIN mem THEN mem[addr] ELSE Filled(0)

write_word(mem, addr, word) == IF addr \in DOMAIN mem THEN [mem EXCEPT ![addr] = word] ELSE mem

\* core::ptr::write_bytes(ptr, byte, count)
write_bytes(mem, addr, byte, count) ==
    [a \in DOMAIN mem |-> IF a >= addr /\ a + 8 <= addr + count THEN Filled(byte) ELSE mem[a]]

SlabCache_new == [free_list |-> None, total_objects |-> 0, used_objects |-> 0]

\* SlabAllocator::new
SlabAllocator_new == [caches |-> [idx \in 0..(NUM_SLABS - 1) |-> SlabCache_new]]

\* the heap as the calls see it: the caches, the buddy, memory, and whether a
\* panic! was reached
Heap(slab, buddy, mem) == [slab |-> slab, buddy |-> buddy, mem |-> mem, panic |-> FALSE]

\* an expand loop that places the objects half an object apart
RECURSIVE expand_loop_half_stride(_, _, _, _, _)
expand_loop_half_stride(h, idx, page, object_size, i) ==
    IF i >= PAGE_SIZE \div object_size THEN h
    ELSE LET obj == page + i * (object_size \div 2)
         IN  expand_loop_half_stride(
                 [h EXCEPT !.mem = write_word(@, obj, pointer_word(h.slab.caches[idx].free_list)),
                           !.slab.caches[idx].free_list = Some(VirtPtr(obj))],
                 idx, page, object_size, i + 1)

\* SlabCache::expand, the loop `for i in 0..objects_per_page`: object i is
\* linked in front of the free list
RECURSIVE expand_loop(_, _, _, _, _)
expand_loop(h, idx, page, object_size, i) ==
    IF i >= PAGE_SIZE \div object_size THEN h
    ELSE LET obj == page + i * object_size
         IN  expand_loop(
                 [h EXCEPT !.mem = write_word(@, obj, pointer_word(h.slab.caches[idx].free_list)),
                           !.slab.caches[idx].free_list = Some(VirtPtr(obj))],
                 idx, page, object_size, i + 1)

\* SlabCache::expand: [heap, ret]
expand(h, idx, object_size) ==
    LET page == allocate(h.buddy, 12)
    IN  IF page.ret = None THEN [heap |-> [h EXCEPT !.buddy = page.state], ret |-> FALSE]
        ELSE [heap |-> [expand_loop([h EXCEPT !.buddy = page.state], idx, page.ret[1],
                                    object_size, 0)
                           EXCEPT !.slab.caches[idx].total_objects =
                                      @ + PAGE_SIZE \div object_size],
              ret |-> TRUE]

\* the check of SlabCache::allocate under cfg(debug_assertions): one of the
\* first object_size.min(8) bytes of the object is 0xAA
use_after_free_detected(mem, free_obj, object_size) ==
    \E i \in 1..Min(object_size, 8) : read_word(mem, phys_of(free_obj))[i] = POISON_ALLOCATED

\* SlabCache::allocate past the expansion: [heap, ret], ret the pointer
take_first(h, idx, object_size, debug) ==
    LET free_obj == h.slab.caches[idx].free_list[1]
    IN  IF debug /\ use_after_free_detected(h.mem, free_obj, object_size)
        THEN [heap |-> [h EXCEPT !.panic = TRUE], ret |-> None]
        ELSE [heap |-> [h EXCEPT
                           !.slab.caches[idx].free_list =
                               word_pointer(read_word(h.mem, phys_of(free_obj))),
                           !.slab.caches[idx].used_objects = @ + 1,
                           !.mem = IF debug
                                   THEN write_bytes(@, phys_of(free_obj), POISON_ALLOCATED,
                                                    Min(object_size, 256))
                                   ELSE @],
              ret |-> Some(free_obj)]

\* SlabCache::allocate: [heap, ret], ret None for the null pointer
SlabCache_allocate(h, idx, object_size, debug) ==
    IF h.slab.caches[idx].free_list = None
    THEN IF ~expand(h, idx, object_size).ret
         THEN [heap |-> expand(h, idx, object_size).heap, ret |-> None]
         ELSE take_first(expand(h, idx, object_size).heap, idx, object_size, debug)
    ELSE take_first(h, idx, object_size, debug)

\* SlabCache::deallocate
SlabCache_deallocate(h, idx, ptr, object_size, debug) ==
    LET poisoned == IF debug
                    THEN write_bytes(h.mem, phys_of(ptr), POISON_FREED, Min(object_size, 256))
                    ELSE h.mem
    IN  [h EXCEPT !.mem = write_word(poisoned, phys_of(ptr),
                                     pointer_word(h.slab.caches[idx].free_list)),
                  !.slab.caches[idx].free_list = Some(ptr),
                  !.slab.caches[idx].used_objects = Max(@ - 1, 0)]

\* SlabAllocator::allocate_large: [heap, ret, route]
allocate_large(h, size, align) ==
    LET order == size_to_buddy_order(Max(size, align))
        block == allocate(h.buddy, order)
    IN  [heap |-> [h EXCEPT !.buddy = block.state],
         ret |-> IF block.ret = None THEN None ELSE Some(VirtPtr(block.ret[1])),
         route |-> <<"buddy", order>>]

\* SlabAllocator::deallocate_large: [heap, route]
deallocate_large(h, ptr, size) ==
    LET order == size_to_buddy_order(size)
    IN  [heap |-> [h EXCEPT !.buddy = deallocate(@, phys_of(ptr), order)],
         route |-> <<"buddy", order>>]

\* SlabAllocator::allocate: [heap, ret, route]; route is where the block
\* comes from, a size class or a buddy order
SlabAllocator_allocate(h, layout, debug) ==
    LET size == Max(layout.size, layout.align)
    IN  IF size > MAX_SLAB_SIZE THEN allocate_large(h, size, layout.align)
        ELSE IF slab_index(size) # None
        THEN [heap |-> SlabCache_allocate(h, slab_index(size)[1],
                                          class_size(slab_index(size)[1]), debug).heap,
              ret |-> SlabCache_allocate(h, slab_index(size)[1],
                                         class_size(slab_index(size)[1]), debug).ret,
              route |-> <<"slab", slab_index(size)[1]>>]
        ELSE [heap |-> h, ret |-> None, route |-> <<"none", 0>>]

\* SlabAllocator::deallocate of a non-null pointer: [heap, route]
SlabAllocator_deallocate(h, ptr, layout, debug) ==
    LET size == Max(layout.size, layout.align)
    IN  IF size > MAX_SLAB_SIZE THEN deallocate_large(h, ptr, size)
        ELSE IF slab_index(size) # None
        THEN [heap |-> SlabCache_deallocate(h, slab_index(size)[1], ptr,
                                            class_size(slab_index(size)[1]), debug),
              route |-> <<"slab", slab_index(size)[1]>>]
        ELSE [heap |-> h, route |-> <<"none", 0>>]

\* the Layouts the callers ask for: a small object, one whose alignment
\* exceeds its size, and large ones
Layouts ==
    { Layout(300, 8), Layout(8, 1024), Layout(2049, 16), Layout(4096, 8192), Layout(5000, 8) }

\* usable regions of the boot memory map, one of which the buddy is given
SlabRegions == { <<1048576, 1056768>>, <<11141120, 11149312>> }

\* live allocations at a time
MaxLive == 2

\* what a caller stores through its pointer: 0xDEADBE00 + n
StoredValue(n) == <<n, 190, 173, 222, 0, 0, 0, 0>>

NoSlabCall ==
    [op |-> "none", layout |-> Layout(0, 1), ret |-> None, route |-> <<"none", 0>>,
     taken |-> <<"none", 0>>, panic |-> FALSE]

InitSlabVars ==
    /\ SLAB_ALLOCATOR = SlabAllocator_new
    /\ heap_mem = [a \in {} |-> Filled(0)]
    /\ live = {}
    /\ slab_call = NoSlabCall
    /\ debug_assertions = FALSE

\* init::memory::init_core of a debug or a release build: the usable region
\* goes to the buddy
SlabBoot(r, debug) ==
    /\ regions = {}
    /\ debug_assertions' = debug
    /\ BUDDY' = add_region(BUDDY, r[1], r[2])
    /\ regions' = {r}
    /\ heap_mem' = [a \in SampleAddrs(r) |-> Filled(0)]
    /\ UNCHANGED <<outstanding, last_call, law, contract_violated>>
    /\ UNCHANGED <<SLAB_ALLOCATOR, live, slab_call>>
    /\ UNCHANGED beside_slab

\* the state a call leaves behind
SlabReturns(h) ==
    /\ SLAB_ALLOCATOR' = h.slab
    /\ BUDDY' = h.buddy
    /\ heap_mem' = h.mem

\* the smallest value no live allocation carries
FreshValue == CHOOSE n \in 1..(MaxLive + 1) : \A l \in live : l.value # StoredValue(n)

\* what alloc leaves behind when SlabAllocator::allocate returned r, and the
\* caller's store through the pointer
SlabAllocated(layout, r) ==
    /\ SlabReturns([r.heap EXCEPT !.mem = IF r.ret = None THEN @
                                          ELSE write_word(@, phys_of(r.ret[1]),
                                                          StoredValue(FreshValue))])
    /\ live' = IF r.ret = None THEN live
               ELSE live \cup {[ptr |-> r.ret[1], layout |-> layout, route |-> r.route,
                                value |-> StoredValue(FreshValue)]}
    /\ slab_call' = [op |-> "alloc", layout |-> layout, ret |-> r.ret, route |-> r.route,
                     taken |-> r.route, panic |-> r.heap.panic]

\* alloc::alloc::alloc(layout)
SlabAlloc(layout) ==
    /\ regions # {}
    /\ ~slab_call.panic
    /\ ~BUDDY.panicked
    /\ Cardinality(live) < MaxLive
    /\ SlabAllocated(layout, SlabAllocator_allocate(Heap(SLAB_ALLOCATOR, BUDDY, heap_mem),
                                                    layout, debug_assertions))
    /\ UNCHANGED <<regions, outstanding, last_call, law, contract_violated, debug_assertions>>
    /\ UNCHANGED beside_slab

\* the live allocation at an address
LiveAt(addr) == CHOOSE l \in live : phys_of(l.ptr) = addr

\* alloc::alloc::dealloc(ptr, layout) of a live allocation, with its Layout
SlabDealloc(addr) ==
    /\ ~slab_call.panic
    /\ ~BUDDY.panicked
    /\ \E l \in live : phys_of(l.ptr) = addr
    /\ SlabReturns(SlabAllocator_deallocate(Heap(SLAB_ALLOCATOR, BUDDY, heap_mem),
                                            LiveAt(addr).ptr, LiveAt(addr).layout,
                                            debug_assertions).heap)
    /\ live' = live \ {LiveAt(addr)}
    /\ slab_call' = [op |-> "dealloc", layout |-> LiveAt(addr).layout,
                     ret |-> Some(LiveAt(addr).ptr),
                     route |-> SlabAllocator_deallocate(
                                   Heap(SLAB_ALLOCATOR, BUDDY, heap_mem),
                                   LiveAt(addr).ptr, LiveAt(addr).layout,
                                   debug_assertions).route,
                     taken |-> LiveAt(addr).route, panic |-> FALSE]
    /\ UNCHANGED <<regions, outstanding, last_call, law, contract_violated, debug_assertions>>
    /\ UNCHANGED beside_slab

\* the addresses a block can start at
BlockAddrs == UNION { SampleAddrs(r) : r \in SlabRegions }

\* the objects on a free list, followed through memory from its head for at
\* most `fuel` links
RECURSIVE free_list_objects(_, _, _)
free_list_objects(mem, head, fuel) ==
    IF head = None \/ fuel = 0 THEN {}
    ELSE {phys_of(head[1])}
             \cup free_list_objects(mem, word_pointer(read_word(mem, phys_of(head[1]))), fuel - 1)

\* the objects on the free list of cache idx
FreeObjects(idx) ==
    free_list_objects(heap_mem, SLAB_ALLOCATOR.caches[idx].free_list,
                      SLAB_ALLOCATOR.caches[idx].total_objects)

\* the bytes [a, a + n) and [b, b + m) have one in common
BytesOverlap(a, n, b, m) == a < b + m /\ b < a + n

\* the bytes behind a route: a size class or a buddy block
BlockBytes(route) == IF route[1] = "slab" THEN class_size(route[2]) ELSE Shl1(route[2])

\* the smallest k with 2^k >= n, for n >= 1
CeilLog2(n) == trailing_zeros(next_power_of_two(n))

CeilDiv(a, b) == (a + b - 1) \div b

NextSlab ==
    \/ \E r \in SlabRegions, debug \in BOOLEAN : SlabBoot(r, debug)
    \/ \E layout \in Layouts : SlabAlloc(layout)
    \/ \E addr \in BlockAddrs : SlabDealloc(addr)

InitSchedVars ==
    /\ SCHEDULER = scheduler_new
    /\ added = {}
    /\ last_op = "new"
    /\ need_switch = FALSE
    /\ owed = {}
    /\ ticks_run = 0
    /\ ready_order = <<>>

ReadyPids(s) == { q.pid : q \in Queued(s) }

\* the Ready processes in the order in which they became Ready: those that
\* stay Ready keep their place, one that has just become Ready goes last
ReadyOrder(old, s, t) ==
    LET stay  == SelectSeq(old, LAMBDA pid : pid \in ReadyPids(s) \cap ReadyPids(t))
        fresh == ReadyPids(t) \ ReadyPids(s)
    IN  IF fresh = {} THEN stay ELSE Append(stay, CHOOSE pid \in fresh : TRUE)

Observe ==
    /\ owed' = Owed(owed, SCHEDULER')
    /\ ticks_run' = IF last_op' = "tick" THEN ticks_run + 1 ELSE 0
    /\ ready_order' = ReadyOrder(ready_order, SCHEDULER, SCHEDULER')

SchedAlive == ~SCHEDULER.panicked

\* once start_first has run, a process is Running or has just been killed
Started == last_op \notin {"new", "add_process"}

\* init::processes::create_idle_process: Pid(0), priority 0, added first
CreateIdle ==
    /\ SchedAlive
    /\ added = {}
    /\ SCHEDULER' = add_process(SCHEDULER, Process(0, "Ready", set_priority(0), allocate_kernel_stack(0),
                                   AddressSpace_kernel))
    /\ added' = {0}
    /\ last_op' = "add_process"
    /\ Observe
    /\ UNCHANGED <<need_switch, outside_sched>>

\* create_user_processes / create_shell_process: allocate_pid, add_process
CreateProcess ==
    /\ SchedAlive
    /\ 0 \in added
    /\ ~Started
    /\ Cardinality(added) <= Len(BootPriorities)
    /\ LET pid == SCHEDULER.next_pid
           priority == BootPriorities[Cardinality(added)]
           address_space ==
               IF BootAddressSpaces[Cardinality(added)] = "user"
               THEN AddressSpace_new_user(pid) ELSE AddressSpace_kernel
           s   == [SCHEDULER EXCEPT !.next_pid = @ + 1]
       IN  /\ SCHEDULER' = add_process(s, Process(pid, "Ready", set_priority(priority),
                                                  allocate_kernel_stack(pid), address_space))
           /\ added' = added \cup {pid}
    /\ last_op' = "add_process"
    /\ Observe
    /\ UNCHANGED <<need_switch, outside_sched>>

\* process::start_first_process at the end of boot
StartFirst ==
    /\ SchedAlive
    /\ ~Started
    /\ Cardinality(added) = Len(BootPriorities) + 1
    /\ SCHEDULER' = start_first(SCHEDULER)
    /\ last_op' = "start_first"
    /\ Observe
    /\ UNCHANGED <<added, need_switch, outside_sched>>

\* timer interrupt: scheduler.tick()
Tick ==
    /\ SchedAlive
    /\ Started
    /\ ~need_switch
    /\ LET r == tick(SCHEDULER)
       IN  /\ SCHEDULER' = r.state
           /\ need_switch' = r.ret
    /\ last_op' = "tick"
    /\ Observe
    /\ UNCHANGED <<added, outside_sched>>

\* switch_to_next, called after tick() returned true or after kill_current()
SwitchToNext ==
    /\ SchedAlive
    /\ Started
    /\ need_switch
    /\ SCHEDULER' = switch_to_next(SCHEDULER)
    /\ need_switch' = FALSE
    /\ last_op' = "switch_to_next"
    /\ Observe
    /\ UNCHANGED <<added, outside_sched>>

\* kill_current on the running non-idle process; the caller switches next
KillCurrent ==
    /\ SchedAlive
    /\ Started
    /\ ~need_switch
    /\ SCHEDULER.running # None
    /\ SCHEDULER.running[1].pid # 0
    /\ SCHEDULER' = kill_current(SCHEDULER)
    /\ need_switch' = TRUE
    /\ last_op' = "kill_current"
    /\ Observe
    /\ UNCHANGED <<added, outside_sched>>

\* init::devices::kill_current_user_process: a fault of the running process
KillAndSwitch ==
    /\ SchedAlive
    /\ Started
    /\ ~need_switch
    /\ SCHEDULER.running # None
    /\ SCHEDULER.running[1].pid # 0
    /\ SCHEDULER' = kill_and_switch(SCHEDULER)
    /\ last_op' = "kill_and_switch"
    /\ Observe
    /\ UNCHANGED <<added, need_switch, outside_sched>>

NextSched ==
    \/ CreateIdle
    \/ CreateProcess
    \/ StartFirst
    \/ Tick
    \/ SwitchToNext
    \/ KillCurrent
    \/ KillAndSwitch

\* init::memory::init_core: the usable region goes to the buddy
InitCore ==
    /\ ~kernel_panic
    /\ regions = {}
    /\ added = {}
    /\ BUDDY' = add_region(BUDDY, MemRegion[1], MemRegion[2])
    /\ regions' = {MemRegion}
    /\ UNCHANGED <<outstanding, last_call, law, contract_violated, outside_buddy>>

\* create_idle_process, given the buddy's answer k for the kernel stack
IdleCreated(k) ==
    /\ BUDDY' = k.state
    /\ IF k.ret = None
       THEN /\ kernel_panic' = TRUE
            /\ UNCHANGED sched_vars
       ELSE /\ kernel_panic' = FALSE
            /\ SCHEDULER' = add_process(SCHEDULER,
                                Process(0, "Ready", set_priority(0),
                                        allocate_kernel_stack(0), AddressSpace_kernel))
            /\ added' = {0}
            /\ last_op' = "add_process"
            /\ Observe
            /\ UNCHANGED need_switch

\* create_idle_process with its allocate_kernel_stack
MemCreateIdle ==
    /\ ~kernel_panic
    /\ SchedAlive
    /\ regions # {}
    /\ added = {}
    /\ IdleCreated(allocate(BUDDY, 14))
    /\ UNCHANGED <<regions, outstanding, last_call, law, contract_violated>>
    /\ UNCHANGED <<PAGE_TABLES, frame_data, SPACES, fault>>
    /\ UNCHANGED beside_boot

\* the kernel stack (the buddy's answer k) and then the address space of the
\* process: a new one for a user process, the kernel's for the shell
stack_and_address_space(k, tables, data, cr3, i, user) ==
    IF k.ret = None
    THEN [buddy |-> k.state, tables |-> tables, data |-> data,
          ret |-> "Failed to allocate kernel stack", root |-> 0, vmas |-> VmaList_new]
    ELSE IF user
    THEN create_address_space([buddy |-> k.state, tables |-> tables, data |-> data], cr3, i)
    ELSE [buddy |-> k.state, tables |-> tables, data |-> data,
          ret |-> "Ok", root |-> AddressSpace_kernel, vmas |-> VmaList_new]

\* allocate_pid, Process::new_user / new_kernel, add_process, given the
\* stack and address space a
ProcessCreated(a, pid, priority, user) ==
    /\ BUDDY' = a.buddy
    /\ PAGE_TABLES' = a.tables
    /\ frame_data' = a.data
    /\ IF a.ret # "Ok"
       THEN /\ kernel_panic' = TRUE
            /\ UNCHANGED <<sched_vars, SPACES>>
       ELSE /\ kernel_panic' = FALSE
            /\ SPACES' = IF user THEN (a.root :> a.vmas) @@ SPACES ELSE SPACES
            /\ SCHEDULER' = add_process([SCHEDULER EXCEPT !.next_pid = @ + 1],
                                        Process(pid, "Ready", set_priority(priority),
                                                allocate_kernel_stack(pid), a.root))
            /\ added' = added \cup {pid}
            /\ last_op' = "add_process"
            /\ Observe
            /\ UNCHANGED need_switch

\* create_user_processes (one turn of its loop) and create_shell_process
MemCreateProcess ==
    /\ ~kernel_panic
    /\ SchedAlive
    /\ 0 \in added
    /\ ~Started
    /\ Cardinality(added) <= Len(BootPriorities)
    /\ ProcessCreated(
           stack_and_address_space(allocate(BUDDY, 14), PAGE_TABLES, frame_data, SCHEDULER.cr3,
                                   Cardinality(added) - 1,
                                   BootAddressSpaces[Cardinality(added)] = "user"),
           SCHEDULER.next_pid, BootPriorities[Cardinality(added)],
           BootAddressSpaces[Cardinality(added)] = "user")
    /\ UNCHANGED <<regions, outstanding, last_call, law, contract_violated, fault>>
    /\ UNCHANGED beside_boot

\* a process is on the CPU and no handler is in the middle of a switch
OnCpu ==
    /\ ~kernel_panic
    /\ SchedAlive
    /\ Started
    /\ ~need_switch
    /\ SCHEDULER.running # None

\* timer interrupts after boot, below the first aging epoch
MaxTicks == 42

\* exceptions and user accesses are tried in the first FaultWindow timer
\* periods of a time slice
FaultWindow == 1

\* the code segment the CPU can be in: ring 3 only in a user process
CanRunIn(code_segment) ==
    /\ OnCpu
    /\ ticks_run < FaultWindow
    /\ cpl(code_segment) = 3 =>
          /\ SCHEDULER.running[1].address_space # AddressSpace_kernel
          /\ SCHEDULER.running[1].state = "Running"

\* a handler that kills the process whatever the ring
exception_from_always_user(code_segment) == "kill"

\* `if sf.code_segment & 0x3 != 0 { kill_current_user_process } else panic!`
exception_from(code_segment) == IF cpl(code_segment) # 0 THEN "kill" ELSE "panic"

\* kill_current_user_process: SCHEDULER.lock().kill_and_switch(reason)
KillCurrentUserProcess ==
    /\ SCHEDULER' = kill_and_switch(SCHEDULER)
    /\ last_op' = "kill_and_switch"
    /\ Observe
    /\ UNCHANGED <<added, need_switch>>

ExceptionKinds == {"DIVIDE BY ZERO", "INVALID OPCODE", "GENERAL PROTECTION FAULT"}

\* divide_by_zero_handler, invalid_opcode_handler, general_protection_fault_handler
Exception(kind, code_segment) ==
    /\ CanRunIn(code_segment)
    /\ IF exception_from(code_segment) = "kill"
       THEN KillCurrentUserProcess /\ UNCHANGED kernel_panic
       ELSE kernel_panic' = TRUE /\ UNCHANGED sched_vars
    /\ fault' = [kind |-> kind, code_segment |-> code_segment, va |-> NULL_ADDR,
                 write |-> FALSE, error_code |-> 0,
                 outcome |-> exception_from(code_segment), pid |-> SCHEDULER.running[1].pid]
    /\ UNCHANGED <<buddy_vars, PAGE_TABLES, frame_data, SPACES>>
    /\ UNCHANGED beside_boot

\* scheduler::find_current_vma: the running process's address space
find_current_vma(s, spaces, addr) ==
    IF s.running = None THEN None
    ELSE VmaList_find(spaces[s.running[1].address_space], addr)

\* step 3 of page_fault_handler, given the result d of map_demand_page
demand_paged(d, is_user) ==
    IF d.ret # "Ok" THEN [d EXCEPT !.ret = IF is_user THEN "kill" ELSE "panic"] ELSE d

\* page_fault_handler, up to the kill or the panic: [buddy, tables, data, ret]
\* with ret "Ok", "kill" or "panic"
page_fault_handler(m, s, spaces, fault_addr, error_code) ==
    IF \/ is_demand_pageable(error_code) # "Ok"
       \/ find_current_vma(s, spaces, fault_addr) = None
    THEN [m EXCEPT !.ret = IF BitSet(error_code, PF_USER) THEN "kill" ELSE "panic"]
    ELSE demand_paged(map_demand_page(m, s.cr3, fault_addr,
                                      find_current_vma(s, spaces, fault_addr)[1]),
                      BitSet(error_code, PF_USER))

\* what the handler's result h leaves behind
PageFaultHandled(h, va, write, code_segment, error_code) ==
    /\ BUDDY' = h.buddy
    /\ PAGE_TABLES' = h.tables
    /\ frame_data' = h.data
    /\ IF h.ret = "kill" THEN KillCurrentUserProcess ELSE UNCHANGED sched_vars
    /\ kernel_panic' = (h.ret = "panic")
    /\ fault' = [kind |-> "PAGE FAULT", code_segment |-> code_segment, va |-> va,
                 write |-> write, error_code |-> error_code,
                 outcome |-> h.ret, pid |-> SCHEDULER.running[1].pid]

\* an access the MMU refuses, and the page fault handler that follows
PageFault(va, write, code_segment) ==
    /\ CanRunIn(code_segment)
    /\ ~access_ok(PAGE_TABLES, SCHEDULER.cr3, va, write, cpl(code_segment))
    /\ PageFaultHandled(
           page_fault_handler(
               [buddy |-> BUDDY, tables |-> PAGE_TABLES, data |-> frame_data, ret |-> ""],
               SCHEDULER, SPACES, va,
               page_fault_error_code(PAGE_TABLES, SCHEDULER.cr3, va, write, cpl(code_segment))),
           va, write, code_segment,
           page_fault_error_code(PAGE_TABLES, SCHEDULER.cr3, va, write, cpl(code_segment)))
    /\ UNCHANGED <<regions, outstanding, last_call, law, contract_violated, SPACES>>
    /\ UNCHANGED beside_boot

\* a user-mode write the MMU lets through
UserWrite(va) ==
    /\ CanRunIn(USER_CS)
    /\ access_ok(PAGE_TABLES, SCHEDULER.cr3, va, TRUE, 3)
    /\ frame_data' = [frame_data EXCEPT
                         ![translate(PAGE_TABLES, SCHEDULER.cr3, va)[1].frame] =
                             <<"written", SCHEDULER.running[1].pid>>]
    /\ fault' = [kind |-> "write", code_segment |-> USER_CS, va |-> va, write |-> TRUE,
                 error_code |-> 0, outcome |-> "written", pid |-> SCHEDULER.running[1].pid]
    /\ UNCHANGED <<buddy_vars, sched_vars, PAGE_TABLES, SPACES, kernel_panic>>
    /\ UNCHANGED beside_boot

\* validate_user_buffer on a page-granular address, for a count that stays
\* in the page: Err(EFAULT) for the null address and from USER_SPACE_MAX
\* (PML4 index 256) up
validate_user_page(va) ==
    IF va = NULL_ADDR THEN EFAULT
    ELSE IF va.pml4 >= ENTRY_COUNT \div 2 THEN EFAULT
    ELSE 0

\* the file descriptor table of a process that opened /dev/zero
FilesWithZero == [new_with_stdio EXCEPT ![3] = "DevZero"]

\* what the call leaves behind: it returned without touching the buffer, it
\* touched a mapped page, or page_fault_handler ran with result h
MemSyscallDone(call, va, write, touched, error_code, h) ==
    IF ~touched
    THEN /\ fault' = [kind |-> call, code_segment |-> KERNEL_CS, va |-> va,
                      write |-> write, error_code |-> 0, outcome |-> "returned",
                      pid |-> SCHEDULER.running[1].pid]
         /\ UNCHANGED <<buddy_vars, sched_vars, PAGE_TABLES, frame_data, kernel_panic>>
    ELSE IF translate(PAGE_TABLES, SCHEDULER.cr3, va) # None
    THEN /\ fault' = [kind |-> call, code_segment |-> KERNEL_CS, va |-> va,
                      write |-> write, error_code |-> 0, outcome |-> "touched",
                      pid |-> SCHEDULER.running[1].pid]
         /\ frame_data' = IF /\ write
                             /\ translate(PAGE_TABLES, SCHEDULER.cr3, va)[1].frame
                                    \in DOMAIN frame_data
                          THEN [frame_data EXCEPT
                                   ![translate(PAGE_TABLES, SCHEDULER.cr3, va)[1].frame] =
                                       <<"written", SCHEDULER.running[1].pid>>]
                          ELSE frame_data
         /\ UNCHANGED <<buddy_vars, sched_vars, PAGE_TABLES, kernel_panic>>
    ELSE /\ BUDDY' = h.buddy
         /\ PAGE_TABLES' = h.tables
         /\ frame_data' = h.data
         /\ IF h.ret = "kill" THEN KillCurrentUserProcess ELSE UNCHANGED sched_vars
         /\ kernel_panic' = (h.ret = "panic")
         /\ fault' = [kind |-> call, code_segment |-> KERNEL_CS, va |-> va,
                      write |-> write, error_code |-> error_code, outcome |-> h.ret,
                      pid |-> SCHEDULER.running[1].pid]
         /\ UNCHANGED <<regions, outstanding, last_call, law, contract_violated>>

\* whether the device behind fd reaches the buffer of sys_read or sys_write:
\* not when validate_user_buffer or the descriptor lookup fails
touches_buffer(call, fd, va) ==
    /\ validate_user_page(va) = 0
    /\ fdt_get_mut(FilesWithZero, fd) # "Err"
    /\ IF call = "sys_read" THEN handle_read(fdt_get_mut(FilesWithZero, fd), 1).touched
       ELSE handle_write(fdt_get_mut(FilesWithZero, fd), 1).touched

\* int 0x80 from the user process on the CPU: sys_read(fd, buf, 1) or
\* sys_write(fd, buf, 1).  The buffer is validated, the device touches it in
\* ring 0 through core::slice::from_raw_parts, and an access the MMU refuses
\* there is a page fault with the kernel's code segment
MemSyscall(call, fd, va) ==
    /\ CanRunIn(USER_CS)
    /\ MemSyscallDone(
           call, va, call = "sys_read", touches_buffer(call, fd, va),
           page_fault_error_code(PAGE_TABLES, SCHEDULER.cr3, va, call = "sys_read", 0),
           page_fault_handler(
               [buddy |-> BUDDY, tables |-> PAGE_TABLES, data |-> frame_data, ret |-> ""],
               SCHEDULER, SPACES, va,
               page_fault_error_code(PAGE_TABLES, SCHEDULER.cr3, va, call = "sys_read", 0)))
    /\ UNCHANGED SPACES
    /\ UNCHANGED beside_boot

\* addresses the accesses are tried at: the last and the first page of each
\* stack, the code page, a kernel page, the null page
AccessAddrs ==
    { add_pages(user_stack_base(0), STACK_PAGES - 1), [user_stack_base(0) EXCEPT !.off = 8],
      add_pages(user_stack_base(1), STACK_PAGES - 1),
      USER_CODE_BASE, VAddr(5, 0, 0), NULL_ADDR }

\* process::start_first_process at the end of boot
MemStartFirst ==
    /\ ~kernel_panic
    /\ regions # {}
    /\ SchedAlive
    /\ ~Started
    /\ Cardinality(added) = Len(BootPriorities) + 1
    /\ SCHEDULER' = start_first(SCHEDULER)
    /\ last_op' = "start_first"
    /\ Observe
    /\ UNCHANGED <<added, need_switch, buddy_vars, mem_vars>>
    /\ UNCHANGED beside_boot

\* the timer interrupt: scheduler.tick(), and switch_to_next() when it
\* returned true
MemTimer ==
    /\ OnCpu
    /\ SCHEDULER.global_ticks < MaxTicks
    /\ LET r == tick(SCHEDULER)
       IN  SCHEDULER' = IF r.ret THEN switch_to_next(r.state) ELSE r.state
    /\ last_op' = IF tick(SCHEDULER).ret THEN "switch_to_next" ELSE "tick"
    /\ Observe
    /\ fault' = [NoFault EXCEPT !.kind = "timer"]
    /\ UNCHANGED <<added, need_switch, buddy_vars, PAGE_TABLES, frame_data, SPACES, kernel_panic>>
    /\ UNCHANGED beside_boot

NextMem ==
    \/ InitCore
    \/ MemCreateIdle
    \/ MemCreateProcess
    \/ MemStartFirst
    \/ MemTimer
    \/ \E kind \in ExceptionKinds, code_segment \in {KERNEL_CS, USER_CS} :
           Exception(kind, code_segment)
    \/ \E va \in AccessAddrs, write \in BOOLEAN, code_segment \in {KERNEL_CS, USER_CS} :
           PageFault(va, write, code_segment)
    \/ \E va \in AccessAddrs : UserWrite(va)
    \/ \E call \in {"sys_read", "sys_write"}, fd \in {1, 3}, va \in AccessAddrs :
           MemSyscall(call, fd, va)

\* the process on the CPU, None when there is none
OnCpuPid == IF SCHEDULER.running = None THEN None ELSE Some(SCHEDULER.running[1].pid)

\* a resume of the process in the running slot of s, which observes registers
Resumed(s, via, registers, frames) ==
    [pid |-> Some(s.running[1].pid), via |-> via, observed |-> registers,
     frame |-> frames[s.running[1].pid]]

\* process::start_first_process: jump_to_trapframe on the TrapFrame of the
\* first process
ResumeStartFirst ==
    /\ SchedAlive
    /\ ~Started
    /\ Cardinality(added) = Len(BootPriorities) + 1
    /\ SCHEDULER' = start_first(SCHEDULER)
    /\ last_op' = "start_first"
    /\ Observe
    /\ cpu_regs' = popped_registers(TRAPFRAMES[start_first(SCHEDULER).running[1].pid],
                                    trapret_pop_order)
    /\ resumed' = Resumed(start_first(SCHEDULER), "jump_to_trapframe", cpu_regs', TRAPFRAMES)
    /\ UNCHANGED <<added, need_switch, TRAPFRAMES>>
    /\ UNCHANGED beside_resume

\* the process on the CPU executes: every register takes a new value of its
\* own
ResumeRun ==
    /\ SchedAlive
    /\ Started
    /\ SCHEDULER.running # None
    /\ ticks_run < FaultWindow
    /\ cpu_regs.rip[2] < MaxRuns
    /\ cpu_regs' = [r \in AllRegisters |-> <<SCHEDULER.running[1].pid, cpu_regs.rip[2] + 1>>]
    /\ UNCHANGED <<sched_vars, TRAPFRAMES, resumed>>
    /\ UNCHANGED beside_resume

\* switch_to_next(current_tf): the frame at current_tf is copied into the
\* TrapFrame of the outgoing process
saved_frames(s, frames, current_tf) ==
    IF s.running = None THEN frames
    ELSE [frames EXCEPT ![s.running[1].pid] = current_tf]

\* the timer interrupt: timer_interrupt_entry pushes the registers, the
\* handler calls tick() and, when it returned true, switch_to_next(); the
\* trampoline pops from the frame the handler returned
ResumeTimer ==
    /\ SchedAlive
    /\ Started
    /\ SCHEDULER.running # None
    /\ SCHEDULER.global_ticks < MaxTicks
    /\ IF tick(SCHEDULER).ret
       THEN /\ SCHEDULER' = switch_to_next(tick(SCHEDULER).state)
            /\ last_op' = "switch_to_next"
            /\ TRAPFRAMES' = saved_frames(SCHEDULER, TRAPFRAMES, pushed_frame(cpu_regs))
            /\ cpu_regs' = popped_registers(TRAPFRAMES'[SCHEDULER'.running[1].pid],
                                            timer_pop_order)
            /\ resumed' = Resumed(SCHEDULER', "switch_to_next", cpu_regs', TRAPFRAMES')
       ELSE /\ SCHEDULER' = tick(SCHEDULER).state
            /\ last_op' = "tick"
            /\ cpu_regs' = popped_registers(pushed_frame(cpu_regs), timer_pop_order)
            /\ UNCHANGED <<TRAPFRAMES, resumed>>
    /\ Observe
    /\ UNCHANGED <<added, need_switch>>
    /\ UNCHANGED beside_resume

\* an exception of the user process on the CPU: kill_current_user_process
\* overwrites the exception stack frame with kill_and_switch's IretFrame
ResumeKill ==
    /\ SchedAlive
    /\ Started
    /\ SCHEDULER.running # None
    /\ ticks_run < FaultWindow
    /\ SCHEDULER.running[1].address_space # AddressSpace_kernel
    /\ SCHEDULER' = kill_and_switch(SCHEDULER)
    /\ last_op' = "kill_and_switch"
    /\ Observe
    /\ cpu_regs' = redirected(cpu_regs, TRAPFRAMES[SCHEDULER'.running[1].pid])
    /\ resumed' = Resumed(SCHEDULER', "kill_and_switch", cpu_regs', TRAPFRAMES)
    /\ UNCHANGED <<added, need_switch, TRAPFRAMES>>
    /\ UNCHANGED beside_resume

NextResume ==
    \/ CreateIdle
    \/ CreateProcess
    \/ ResumeStartFirst
    \/ ResumeRun
    \/ ResumeTimer
    \/ ResumeKill

Init == InitBuddyVars /\ InitSchedVars /\ InitSyscallVars /\ InitIrqVars /\ InitFdVars /\ InitPfVars /\ InitMemVars /\ InitVmaVars /\ InitKbVars /\ InitPreemptVars /\ InitResumeVars /\ InitSlabVars

SpecBuddy == Init /\ [][NextBuddy]_vars

SpecDoubleFree == Init /\ [][NextDoubleFree]_vars

SpecSched == Init /\ [][NextSched]_vars

SpecSyscall == Init /\ [][NextSyscall]_vars

SpecIrq == Init /\ [][NextIrq]_vars

SpecFd == Init /\ [][NextFd]_vars

SpecPf == Init /\ [][NextPf]_vars

SpecMem == Init /\ [][NextMem]_vars

SpecVma == Init /\ [][NextVma]_vars

SpecKb == Init /\ [][NextKb]_vars

SpecPreempt == Init /\ [][NextPreempt]_vars

SpecResume == Init /\ [][NextResume]_vars

SpecSlab == Init /\ [][NextSlab]_vars

\* a caller of running_mut() marks the running process Zombie or Blocked and
\* leaves it in the running slot until the next switch
SetRunningState(state) ==
    /\ SchedAlive
    /\ Started
    /\ ~need_switch
    /\ SCHEDULER.running # None
    /\ SCHEDULER.running[1].pid # 0
    /\ SCHEDULER.running[1].state = "Running"
    /\ SCHEDULER' = [SCHEDULER EXCEPT !.running = Some([@[1] EXCEPT !.state = state])]
    /\ last_op' = "running_mut"
    /\ owed' = Owed(owed, SCHEDULER')
    /\ UNCHANGED <<added, need_switch, ticks_run, ready_order, outside_sched>>

NextSwitch ==
    \/ CreateIdle
    \/ CreateProcess
    \/ StartFirst
    \/ Tick
    \/ SwitchToNext
    \/ \E state \in {"Zombie", "Blocked"} : SetRunningState(state)

SpecSwitch == Init /\ [][NextSwitch]_vars

\* int 0x80 with rax = 60 from the running user process
SysExit ==
    /\ SchedAlive
    /\ Started
    /\ ~need_switch
    /\ SCHEDULER.running # None
    /\ SCHEDULER.running[1].state = "Running"
    /\ SCHEDULER.running[1].address_space # AddressSpace_kernel
    /\ SCHEDULER' = sys_exit(SCHEDULER)
    /\ last_op' = "sys_exit"
    /\ owed' = Owed(owed, SCHEDULER')
    /\ UNCHANGED <<added, need_switch, ticks_run, ready_order, outside_sched>>

NextExit ==
    \/ CreateIdle
    \/ CreateProcess
    \/ StartFirst
    \/ Tick
    \/ SwitchToNext
    \/ SysExit

SpecExit == Init /\ [][NextExit]_vars

\* a mix of base priorities other than the boot's: one low-priority process
\* created first, then two processes of the highest priority
CompetingPriorities == <<1, 10, 10>>

\* allocate_pid, set_priority, add_process for the competing mix
CreateCompeting ==
    /\ SchedAlive
    /\ 0 \in added
    /\ ~Started
    /\ Cardinality(added) <= Len(CompetingPriorities)
    /\ LET pid == SCHEDULER.next_pid
           priority == CompetingPriorities[Cardinality(added)]
           s   == [SCHEDULER EXCEPT !.next_pid = @ + 1]
       IN  /\ SCHEDULER' = add_process(s, Process(pid, "Ready", set_priority(priority),
                                                  allocate_kernel_stack(pid),
                                                  AddressSpace_new_user(pid)))
           /\ added' = added \cup {pid}
    /\ last_op' = "add_process"
    /\ Observe
    /\ UNCHANGED <<need_switch, outside_sched>>

\* the timer keeps ticking and no process is killed
NextCompeting ==
    \/ CreateIdle
    \/ CreateCompeting
    \/ StartFirst
    \/ Tick
    \/ SwitchToNext

\* boot runs to start_first, timer ticks continue forever, and a context
\* switch that tick() asked for is carried out
SpecCompeting ==
    /\ Init
    /\ [][NextCompeting]_vars
    /\ WF_vars(CreateIdle) /\ WF_vars(CreateCompeting) /\ WF_vars(StartFirst)
    /\ WF_vars(SwitchToNext)
    /\ []<><<Tick>>_vars

SchedNoPanic == ~SCHEDULER.panicked

(***************************************************************************)
(* Properties of the scheduler                                             *)
(***************************************************************************)
RECURSIVE Flatten(_, _)
Flatten(rq, p) == IF p >= NUM_PRIORITIES THEN <<>> ELSE rq[p] \o Flatten(rq, p + 1)

\* every held process, one entry per place that holds it
AllHeld ==
    Flatten(SCHEDULER.run_queues, 0) \o SCHEDULER.wait_queue \o SCHEDULER.running

NonEmptyQueues(s) == { p \in Priorities : s.run_queues[p] # <<>> }

Highest(S) == CHOOSE p \in S : \A q \in S : q <= p

\* C9: a process picked by switch_to_next or kill_and_switch is the head of
\* the highest-numbered non-empty run queue (for switch_to_next, once the
\* outgoing process is back in its queue), so no Ready process has a higher
\* effective priority than the one that becomes Running.
C9_PicksHighest ==
    [][ (last_op' \in {"switch_to_next", "kill_and_switch"} /\ SCHEDULER'.running # None) =>
          LET picked == SCHEDULER'.running[1]
              before == NonEmptyQueues(SCHEDULER)
          IN  /\ \A q \in Queued(SCHEDULER') :
                    q.effective_priority <= picked.effective_priority
              /\ \/ /\ before # {}
                    /\ picked.effective_priority = Highest(before)
                    /\ Head(SCHEDULER.run_queues[Highest(before)]).pid = picked.pid
                 \/ /\ last_op' = "switch_to_next"
                    /\ SCHEDULER.running # None
                    /\ SCHEDULER.running[1].pid = picked.pid
                    /\ \A p \in before : p < picked.effective_priority
      ]_vars

C9_Witness ==
    /\ last_op = "kill_and_switch"
    /\ SCHEDULER.running # None
    /\ SCHEDULER.running[1].pid # 0
    /\ \E q \in Queued(SCHEDULER) :
          q.pid # 0 /\ q.effective_priority < SCHEDULER.running[1].effective_priority

\* C10: once A and B are both Ready with A's effective priority above B's,
\* B does not become Running before A has, whatever ticks, aging epochs and
\* context switches follow.
C10_PriorityOrder ==
    \A ab \in owed : ab[2] \notin RunningPid(SCHEDULER)

IsReady(pid) == \E q \in Queued(SCHEDULER) : q.pid = pid /\ q.state = "Ready"

IsRunning(pid) == pid \in RunningPid(SCHEDULER)

\* C11: while timer ticks continue, every (non-idle) process that is Ready
\* eventually becomes Running, whatever the mix of base priorities.
C11_NoStarvation ==
    \A pid \in 1..Len(CompetingPriorities) : IsReady(pid) ~> IsRunning(pid)

\* the timer handler: when tick() returned true it calls switch_to_next
\* before anything else runs (section 4.7, "Context switch")
SwitchPending == need_switch

C12_WitnessIdle ==
    /\ last_op = "tick"
    /\ need_switch
    /\ SCHEDULER.running # None
    /\ SCHEDULER.running[1].pid = 0
    /\ ticks_run = 2

\* the queued process with this pid
QueuedProc(s, pid) == CHOOSE q \in Queued(s) : q.pid = pid

\* C13: on a tick that makes the global tick count a multiple of AGING_EPOCH
\* every Ready non-idle process below its base priority is raised by exactly
\* one; nothing else is raised, and no other tick raises anything.
C13_AgingByOne ==
    [][ last_op' = "tick" =>
          \A q \in Queued(SCHEDULER) :
              QueuedProc(SCHEDULER', q.pid).effective_priority =
                  IF /\ SCHEDULER'.global_ticks = 0
                     /\ q.pid # 0
                     /\ q.effective_priority < q.priority
                  THEN q.effective_priority + 1
                  ELSE q.effective_priority
      ]_vars

Last(q) == q[Len(q)]

\* effective priority of a preempted process after the decay
Decayed(proc) ==
    IF proc.pid # 0 /\ proc.effective_priority > MIN_EFFECTIVE_PRIORITY
    THEN proc.effective_priority - 1
    ELSE proc.effective_priority

\* C14: switch_to_next puts a Running outgoing process, as Ready, at the back
\* of the run queue of its decayed effective priority (old value minus 1
\* unless at MIN_EFFECTIVE_PRIORITY or idle), from where the pick that follows
\* may take it again; a Zombie or Blocked outgoing process goes to the back of
\* the wait queue and into no run queue.
C14_RequeueOutgoing ==
    [][ (last_op' = "switch_to_next" /\ SCHEDULER.running # None) =>
          LET out == SCHEDULER.running[1]
              dec == Decayed(out)
              rq  == SCHEDULER'.run_queues[dec]
          IN  IF out.state = "Running"
              THEN /\ SCHEDULER'.wait_queue = SCHEDULER.wait_queue
                   /\ \/ /\ rq # <<>>
                         /\ Last(rq) = [out EXCEPT !.state = "Ready",
                                                  !.effective_priority = dec]
                      \/ /\ SCHEDULER'.running =
                                Some([out EXCEPT !.effective_priority = dec])
                         /\ SCHEDULER.run_queues[dec] = <<>>
              ELSE /\ SCHEDULER'.wait_queue = Append(SCHEDULER.wait_queue, out)
                   /\ \A q \in Queued(SCHEDULER') : q.pid # out.pid
                   /\ out.pid \notin RunningPid(SCHEDULER')
      ]_vars

\* a preempted process has been put behind another one of its new priority
C14_Witness ==
    /\ last_op = "switch_to_next"
    /\ \E p \in Priorities :
          /\ Len(SCHEDULER.run_queues[p]) >= 2
          /\ Last(SCHEDULER.run_queues[p]).effective_priority
                < Last(SCHEDULER.run_queues[p]).priority
          /\ ticks_run = 0

\* a process marked Blocked in the running slot has gone to the wait queue
C14_WitnessWait ==
    /\ last_op = "switch_to_next"
    /\ SCHEDULER.wait_queue # <<>>
    /\ Last(SCHEDULER.wait_queue).state = "Blocked"

\* C15: every process always has effective_priority <= base priority; a
\* non-idle process of base priority >= 1 has effective_priority >= 1; idle
\* (pid 0) has effective_priority 0, and is picked only when run queues
\* 1..10 are all empty.
C15_PriorityBounds ==
    /\ [](\A i \in 1..Len(AllHeld) :
            LET proc == AllHeld[i] IN
            /\ proc.effective_priority <= proc.priority
            /\ (proc.pid # 0 /\ proc.priority >= 1) => proc.effective_priority >= 1
            /\ proc.pid = 0 => proc.effective_priority = 0)
    /\ [][ (/\ last_op' \in {"start_first", "switch_to_next", "kill_and_switch"}
             /\ 0 \in RunningPid(SCHEDULER')) =>
               \A p \in 1..(NUM_PRIORITIES - 1) :
                   SCHEDULER.run_queues[p] = <<>> /\ SCHEDULER'.run_queues[p] = <<>>
          ]_vars

\* idle has been picked while a process decayed to the floor is held
C15_Witness ==
    /\ last_op \in {"switch_to_next", "kill_and_switch"}
    /\ 0 \in RunningPid(SCHEDULER)
    /\ \E i \in 1..Len(AllHeld) :
          /\ AllHeld[i].effective_priority = MIN_EFFECTIVE_PRIORITY
          /\ AllHeld[i].priority > MIN_EFFECTIVE_PRIORITY

\* C16: within one priority class processes run in the order in which they
\* became Ready, also when aging or decay brought them into the class: a
\* pick never takes a process while one of the same effective priority that
\* has been Ready for longer is left waiting.
C16_ReadyOrder ==
    [][ (/\ last_op' \in {"switch_to_next", "kill_and_switch"}
         /\ SCHEDULER'.running # None
         /\ SCHEDULER'.running[1].pid \in ReadyPids(SCHEDULER)) =>
           LET picked == SCHEDULER'.running[1] IN
           \A q \in Queued(SCHEDULER') :
               (q.pid \in ReadyPids(SCHEDULER)
                    /\ q.effective_priority = picked.effective_priority) =>
                   IndexOf(ready_order, picked.pid) < IndexOf(ready_order, q.pid)
      ]_vars

\* the running process as kill_current leaves it
Killed(s) == [s.running[1] EXCEPT !.state = "Zombie"]

\* C17: kill_current and kill_and_switch put the Running process on the wait
\* queue as Zombie, and the scheduling decision that follows makes Running a
\* different process, one that was Ready, when a Ready process exists.
C17_KillThenSwitch ==
    [][ /\ last_op' = "kill_current" =>
              /\ SCHEDULER'.running = None
              /\ SCHEDULER'.wait_queue = Append(SCHEDULER.wait_queue, Killed(SCHEDULER))
        /\ (last_op = "kill_current" /\ Queued(SCHEDULER) # {}) =>
              /\ last_op' = "switch_to_next"
              /\ SCHEDULER'.wait_queue = SCHEDULER.wait_queue
              /\ SCHEDULER'.running # None
              /\ SCHEDULER'.running[1].pid \in ReadyPids(SCHEDULER)
              /\ SCHEDULER'.running[1].pid # Last(SCHEDULER.wait_queue).pid
        /\ (last_op' = "kill_and_switch" /\ Queued(SCHEDULER) # {}) =>
              /\ SCHEDULER'.wait_queue = Append(SCHEDULER.wait_queue, Killed(SCHEDULER))
              /\ SCHEDULER'.running # None
              /\ SCHEDULER'.running[1].pid \in ReadyPids(SCHEDULER)
              /\ SCHEDULER'.running[1].pid # SCHEDULER.running[1].pid
      ]_vars

\* a second process has been killed and a non-idle one has taken over
C17_Witness ==
    /\ last_op \in {"switch_to_next", "kill_and_switch"}
    /\ ticks_run = 0
    /\ Len(SCHEDULER.wait_queue) = 2
    /\ SCHEDULER.running # None
    /\ SCHEDULER.running[1].pid # 0
    /\ Len(ready_order) = 1

\* the operations that put a process in the running slot
Installs == {"start_first", "switch_to_next", "kill_and_switch"}

\* C19: right after start_first, switch_to_next or kill_and_switch has
\* installed a Running process P, TSS.RSP0 is P's kernel stack top, CR3 holds
\* the root of P's address space, and remaining_ticks is
\* quantum(P.effective_priority)
C19_InstalledProcess ==
    (last_op \in Installs /\ SCHEDULER.running # None) =>
        LET P == SCHEDULER.running[1] IN
        /\ SCHEDULER.tss_rsp0 = P.kernel_stack
        /\ SCHEDULER.cr3 = P.address_space
        /\ SCHEDULER.remaining_ticks = quantum_for(P.effective_priority)

\* a kill_and_switch has installed a user process, whose address space is
\* not the one that was active before
C19_Witness ==
    /\ last_op = "kill_and_switch"
    /\ SCHEDULER.running # None
    /\ SCHEDULER.running[1].address_space # BOOT_PML4
    /\ SCHEDULER.cr3 = SCHEDULER.running[1].address_space
    /\ SCHEDULER.tss_rsp0 = SCHEDULER.running[1].kernel_stack

\* a switch_to_next has installed the shell while a user address space was
\* active
C19_WitnessSwitch ==
    /\ last_op = "switch_to_next"
    /\ SCHEDULER.running # None
    /\ SCHEDULER.running[1].address_space = BOOT_PML4
    /\ SCHEDULER.running[1].pid # 0
    /\ \E q \in Queued(SCHEDULER) : q.effective_priority = SCHEDULER.running[1].effective_priority
                                     /\ q.address_space # BOOT_PML4

\* the process of the running slot has exited and waits for the timer
Exiting(s) == s.running # None /\ s.running[1].state = "Zombie"

C18_WitnessWaiting ==
    /\ last_op = "tick"
    /\ Exiting(SCHEDULER)
    /\ ~need_switch

\* C20: when a system call returns to user mode, rax holds the handler's
\* return value and every other general-purpose register holds the value it
\* had when int 0x80 was executed
C20_RegistersPreserved ==
    [][ cpu_op' = "syscall" =>
          /\ regs'["rax"] = handler_ret'
          /\ \A r \in RegisterNames \ {"rax"} : regs'[r] = regs[r]
      ]_vars

\* C21: in every system call, on every return path, the scheduler mutex is
\* held only with interrupts disabled, so the timer handler never finds the
\* mutex held by the system call it interrupted
C21_MutexHeldWithInterruptsOff ==
    /\ (mutex = "syscall" => ~rflags_if)
    /\ ~spinning

\* the buffer [addr, addr + size) is null, runs past the end of the address
\* space, or has a byte at or above USER_SPACE_MAX
BadBuffer(addr, size) ==
    \/ addr = 0
    \/ addr + size > WORD - 1
    \/ \E a \in addr..(addr + size - 1) : a >= USER_SPACE_MAX

\* C22: read, write and open with such a buffer return -EFAULT, do not
\* dereference the pointer and change nothing in the FD table
C22_BadBufferIsEFAULT ==
    [][ (fd_call'.call \in {"read", "write", "open"}
         /\ BadBuffer(fd_call'.buf, fd_call'.count)) =>
            /\ fd_call'.ret = EFAULT
            /\ ~fd_call'.touched
            /\ files' = files
      ]_vars

\* a write whose buffer starts in user space and ends above it was refused
C22_Witness ==
    /\ fd_call.call = "write"
    /\ fd_call.buf = 1
    /\ fd_call.count = USER_SPACE_MAX
    /\ fd_call.ret = EFAULT

\* the descriptor is out of range or not open in table t
BadFd(t, fd) == fd < 0 \/ fd >= MAX_FILES \/ t[fd] = "None"

\* the buffer starts and ends in the user half and is not null
UserBuffer(addr, size) ==
    addr # 0 /\ addr < USER_SPACE_MAX /\ addr + size <= USER_SPACE_MAX

\* C23: read, write and close on a descriptor that is out of range or not
\* open (the buffer of a read or write being a user buffer) return -EBADF and
\* leave the FD table unchanged
C23_BadFdIsEBADF ==
    [][ (/\ fd_call'.call \in {"read", "write", "close"}
         /\ BadFd(files, fd_call'.fd)
         /\ fd_call'.call = "close" \/ UserBuffer(fd_call'.buf, fd_call'.count)) =>
            /\ fd_call'.ret = EBADF
            /\ files' = files
      ]_vars

\* C26: is_demand_pageable reports a candidate exactly for a user-mode,
\* not-present fault without the reserved bit; the reserved bit, kernel mode
\* and a present page are each reported as unrecoverable, tested in that order
C26_FilterByErrorCode ==
    pf.result # "none" =>
        LET reserved == BitSet(pf.error_code, PF_RESERVED)
            user == BitSet(pf.error_code, PF_USER)
            present == BitSet(pf.error_code, PF_PRESENT)
        IN  /\ pf.result = "Ok" <=> (user /\ ~present /\ ~reserved)
            /\ reserved => pf.result = "Reserved bit set in page table entry"
            /\ (~reserved /\ ~user) => pf.result = "Kernel-mode page fault"
            /\ (~reserved /\ user /\ present) => pf.result = "Protection violation"

\* a user-mode write to a page that is not present was accepted
C26_Witness ==
    /\ pf.error_code = PF_USER + PF_WRITE
    /\ pf.result = "Ok"

\* a kernel-mode fault on a present page is reported as a kernel-mode fault
C26_WitnessOrder ==
    /\ pf.error_code = PF_PRESENT
    /\ pf.result = "Kernel-mode page fault"

\* 4 KiB frames on the free lists of a buddy
RECURSIVE free_frames_from(_, _)
free_frames_from(b, o) ==
    IF o > MAX_ORDER THEN 0
    ELSE Len(b.free_lists[o]) * Shl1(o - MIN_ORDER) + free_frames_from(b, o + 1)

FreeFrames(b) == free_frames_from(b, MIN_ORDER)

\* the frame lies in a block that is on a free list
FrameIsFree(b, frame) ==
    \E o \in Orders : \E i \in 1..Len(b.free_lists[o]) :
        b.free_lists[o][i] <= frame /\ frame < b.free_lists[o][i] + Shl1(o)

\* page-table frames that map_to has to create to map va under root
RECURSIVE missing_tables_from(_, _, _, _)
missing_tables_from(tables, table, indices, level) ==
    IF level = 4 THEN 0
    ELSE IF indices[level] \notin DOMAIN tables[table] THEN 4 - level
    ELSE missing_tables_from(tables, tables[table][indices[level]].frame, indices, level + 1)

MissingTables(tables, root, va) == missing_tables_from(tables, root, table_indices(va), 1)

\* the pages mapped below the user-owned root entries, as <<va, entry>>
UserPages(tables, root) ==
    UNION { mapped_pages_under(tables, root, i) : i \in USER_PML4_ENTRIES }

\* the page-table frames below the user-owned root entries
UserTableFrames(tables, root) ==
    UNION { table_frames_below(tables, tables[root][i].frame, 3) :
            i \in USER_PML4_ENTRIES \cap DOMAIN tables[root] }

\* the address spaces of user processes, by PML4 frame
UserRoots == DOMAIN SPACES \ {BOOT_PML4}

\* the step is a ring 3 page fault on a page that is not mapped and lies in
\* an Anonymous VMA of the running process
DemandFault ==
    /\ fault'.kind = "PAGE FAULT"
    /\ cpl(fault'.code_segment) = 3
    /\ OnCpu
    /\ translate(PAGE_TABLES, SCHEDULER.cr3, fault'.va) = None
    /\ \E vma \in Vmas(SPACES[SCHEDULER.running[1].address_space]) :
           vma_contains(vma, fault'.va) /\ vma.kind = Anonymous

\* the fault was resolved: one new page, the one of the faulting address,
\* with the VMA's flags, on a zeroed frame that was free; the process is
\* still Running and the access goes through
DemandPaged ==
    LET root == SCHEDULER.running[1].address_space
        fresh == UserPages(PAGE_TABLES', root) \ UserPages(PAGE_TABLES, root)
    IN  /\ fault'.outcome = "Ok"
        /\ ~kernel_panic'
        /\ SCHEDULER' = SCHEDULER
        /\ SCHEDULER.cr3 = root
        /\ UserPages(PAGE_TABLES, root) \subseteq UserPages(PAGE_TABLES', root)
        /\ Cardinality(fresh) = 1
        /\ \A p \in fresh :
              /\ p[1] = page_of(fault'.va)
              /\ \E vma \in Vmas(SPACES[root]) :
                     vma_contains(vma, fault'.va) /\ p[2].flags = vma.flags
              /\ FrameIsFree(BUDDY, p[2].frame)
              /\ ~FrameIsFree(BUDDY', p[2].frame)
              /\ p[2].frame \in DOMAIN frame_data'
              /\ frame_data'[p[2].frame] = "zero"
        /\ \A other \in DOMAIN SPACES \ {root} :
              UserPages(PAGE_TABLES', other) = UserPages(PAGE_TABLES, other)
        /\ access_ok(PAGE_TABLES', SCHEDULER'.cr3, fault'.va, fault'.write, 3)

\* C24 as stated: every user-mode access to a page of an Anonymous VMA that
\* is not mapped yet is resolved by the fault handler
C24_DemandFaultResolved == [][DemandFault => DemandPaged]_vars

\* the buddy has the data frame and the missing page-table frames
EnoughFrames ==
    FreeFrames(BUDDY) >= 1 + MissingTables(PAGE_TABLES, SCHEDULER.cr3, fault'.va)

\* C24, amended: such an access is resolved whenever the buddy can supply the
\* data frame and the page-table frames that are missing on the way to it
C24_ResolvedWhenFramesLeft == [][(DemandFault /\ EnoughFrames) => DemandPaged]_vars

\* a write to the last page of the first user process's stack has faulted
\* and the page is mapped, zero-filled, in its page table
C24_Witness ==
    /\ fault.kind = "PAGE FAULT"
    /\ fault.outcome = "Ok"
    /\ fault.write
    /\ fault.va = add_pages(user_stack_base(0), STACK_PAGES - 1)
    /\ SCHEDULER.running # None
    /\ translate(PAGE_TABLES, SCHEDULER.running[1].address_space, fault.va) # None
    /\ frame_data[translate(PAGE_TABLES, SCHEDULER.running[1].address_space, fault.va)[1].frame]
           = "zero"

\* an exception or a page fault the handler cannot resolve: the page is
\* present, no VMA contains the address, the VMA is Code, or the buddy runs out
Unresolvable ==
    \/ fault'.kind \in ExceptionKinds
    \/ /\ fault'.kind = "PAGE FAULT"
       /\ \/ translate(PAGE_TABLES, SCHEDULER.cr3, fault'.va) # None
          \/ ~\E vma \in Vmas(SPACES[SCHEDULER.running[1].address_space]) :
                 vma_contains(vma, fault'.va)
          \/ \E vma \in Vmas(SPACES[SCHEDULER.running[1].address_space]) :
                 vma_contains(vma, fault'.va) /\ vma.kind = Code
          \/ ~EnoughFrames

\* the running process has become a Zombie at the back of the wait queue,
\* a process that was Ready runs, and every other process is where it was
KilledAndSwitched ==
    LET victim == SCHEDULER.running[1] IN
    /\ ~kernel_panic'
    /\ ~SCHEDULER'.panicked
    /\ SCHEDULER'.wait_queue = Append(SCHEDULER.wait_queue, [victim EXCEPT !.state = "Zombie"])
    /\ SCHEDULER'.running # None
    /\ SCHEDULER'.running[1].pid # victim.pid
    /\ SCHEDULER'.running[1].state = "Running"
    /\ \E q \in Queued(SCHEDULER) :
          /\ q.state = "Ready"
          /\ SCHEDULER'.running[1] = [q EXCEPT !.state = "Running"]
          /\ Queued(SCHEDULER') = Queued(SCHEDULER) \ {q}

\* C25: an exception or unresolvable page fault from ring 3 never panics: it
\* makes exactly the current process a Zombie and resumes a Ready process;
\* from ring 0 it panics
C25_KillInRing3PanicInRing0 ==
    [][ (OnCpu /\ fault'.kind \in ExceptionKinds \cup {"PAGE FAULT"}) =>
          /\ (cpl(fault'.code_segment) = 3 /\ Unresolvable) => KilledAndSwitched
          /\ cpl(fault'.code_segment) = 0 => (kernel_panic' /\ SCHEDULER' = SCHEDULER)
      ]_vars

\* a user process was killed by a general protection fault and another
\* process runs
C25_Witness ==
    /\ fault.kind = "GENERAL PROTECTION FAULT"
    /\ fault.code_segment = USER_CS
    /\ fault.outcome = "kill"
    /\ SCHEDULER.running # None
    /\ \E z \in 1..Len(SCHEDULER.wait_queue) :
          SCHEDULER.wait_queue[z].pid = fault.pid /\ SCHEDULER.wait_queue[z].state = "Zombie"

\* a page fault in ring 0 has panicked the kernel
C25_WitnessPanic ==
    /\ fault.kind = "PAGE FAULT"
    /\ fault.code_segment = KERNEL_CS
    /\ kernel_panic

\* a user process was killed because the buddy had no frame for its stack
C25_WitnessOutOfMemory ==
    /\ fault.kind = "PAGE FAULT"
    /\ fault.code_segment = USER_CS
    /\ fault.outcome = "kill"
    /\ fault.error_code = PF_USER + PF_WRITE
    /\ fault.va = add_pages(user_stack_base(1), STACK_PAGES - 1)
    /\ \E z \in 1..Len(SCHEDULER.wait_queue) :
          /\ SCHEDULER.wait_queue[z].pid = fault.pid
          /\ stack_vma(1) \in Vmas(SPACES[SCHEDULER.wait_queue[z].address_space])

\* the frames an address space uses for user pages and for the page tables
\* below its user-owned root entries
UserFrames(tables, root) ==
    { p[2].frame : p \in UserPages(tables, root) } \cup UserTableFrames(tables, root)

\* no frame is used for user pages or user page tables by two address spaces
FramesNotShared ==
    \A A \in UserRoots : \A B \in UserRoots \ {A} :
        UserFrames(PAGE_TABLES, A) \cap UserFrames(PAGE_TABLES, B) = {}

\* a new user address space has no user-owned root entry and the kernel's
\* entries for the rest
NewUserStartsEmpty ==
    (~kernel_panic /\ regions # {}) =>
        LET n == new_user([buddy |-> BUDDY, tables |-> PAGE_TABLES], SCHEDULER.cr3) IN
        n.ret # None =>
            /\ DOMAIN n.tables[n.ret[1]] \cap USER_PML4_ENTRIES = {}
            /\ \A i \in DOMAIN n.tables[n.ret[1]] :
                  n.tables[n.ret[1]][i] = PAGE_TABLES[SCHEDULER.cr3][i]
            /\ \A i \in DOMAIN PAGE_TABLES[SCHEDULER.cr3] \ USER_PML4_ENTRIES :
                  i \in DOMAIN n.tables[n.ret[1]]

\* a user-mode write changes no frame that another address space maps at
\* the same address
WriteStaysPrivate ==
    fault'.kind = "write" =>
        \A B \in UserRoots \ {SCHEDULER.cr3} :
            translate(PAGE_TABLES, B, fault'.va) # None =>
                /\ translate(PAGE_TABLES', B, fault'.va) = translate(PAGE_TABLES, B, fault'.va)
                /\ frame_data'[translate(PAGE_TABLES, B, fault'.va)[1].frame]
                       = frame_data[translate(PAGE_TABLES, B, fault'.va)[1].frame]

\* C27: two user address spaces share no user page frame and no page-table
\* frame below a user-owned root entry, a write of one process does not reach
\* the other's frame, and a new user address space starts with its user-owned
\* root entries empty and the kernel's other entries
C27_AddressSpacesIsolated ==
    /\ [](FramesNotShared /\ NewUserStartsEmpty)
    /\ [][WriteStaysPrivate]_vars

\* both user processes have a demand-paged stack page of their own
C27_Witness ==
    /\ Cardinality(UserRoots) = 2
    /\ \A A \in UserRoots : \E p \in UserPages(PAGE_TABLES, A) : p[1].pml4 = 226
    /\ fault.kind = "write"

\* C29: every user page mapped in the page table of a Ready or Running user
\* process lies in exactly one VMA of its address space
C29_MappedPagesInOneVma ==
    \A proc \in Queued(SCHEDULER) \cup
                (IF SCHEDULER.running # None /\ SCHEDULER.running[1].state = "Running"
                 THEN {SCHEDULER.running[1]} ELSE {}) :
        proc.address_space # AddressSpace_kernel =>
            \A p \in UserPages(PAGE_TABLES, proc.address_space) :
                Cardinality({ vma \in Vmas(SPACES[proc.address_space]) :
                                 vma_contains(vma, p[1]) }) = 1

\* a Running user process has its code page and two stack pages mapped
C29_Witness ==
    /\ SCHEDULER.running # None
    /\ SCHEDULER.running[1].state = "Running"
    /\ SCHEDULER.running[1].address_space # AddressSpace_kernel
    /\ Cardinality(UserPages(PAGE_TABLES, SCHEDULER.running[1].address_space)) = 3

(***************************************************************************)
(* Claims about the VMA list                                               *)
(***************************************************************************)
\* two VMAs cover a common address
Overlap(v, w) == addr_lt(v.start, vma_end(w)) /\ addr_lt(w.start, vma_end(v))

\* C28: after any sequence of add_vma calls on an address space, no two
\* VMAs registered in it cover a common address.
C28_VmasDoNotOverlap ==
    \A i, j \in DOMAIN vmas :
        (i # j /\ vmas[i] # None /\ vmas[j] # None) => ~Overlap(vmas[i][1], vmas[j][1])

(***************************************************************************)
(* Claims about the keyboard ring                                          *)
(***************************************************************************)
IsPrefix(s, t) == Len(s) <= Len(t) /\ \A i \in 1..Len(s) : s[i] = t[i]

\* every published character that has not been returned yet is still in
\* its slot
UnreadIntact ==
    \A k \in (Len(kb_popped) + 1)..Len(kb_accepted) :
        KEYBOARD_BUFFER.buffer[(k - 1) % BUFFER_SIZE] = Some(kb_accepted[k])

\* a pop that finds nothing published and unread returns None, and only
\* such a pop does
PopNoneWhenEmpty ==
    kb_pop.pc = "load_write" /\ kb_pop'.pc # "load_write"
        => IF kb_popped = kb_accepted
           THEN kb_pop'.pc = "idle" /\ kb_ret' = [op |-> "pop", value |-> None]
           ELSE kb_pop'.pc = "read_slot"

\* a pop that returns a character returns the oldest unread one
PopReturnsOldest ==
    kb_pop.pc = "store_read" /\ kb_pop'.pc = "idle"
        => /\ Len(kb_popped) < Len(kb_accepted)
           /\ kb_ret' = [op |-> "pop", value |-> Some(kb_accepted[Len(kb_popped) + 1])]
           /\ kb_popped' = Append(kb_popped, kb_accepted[Len(kb_popped) + 1])

\* C30: under every interleaving of the steps of one producer (push) and
\* one consumer (pop), the characters returned by pop are the characters
\* accepted by push, in the same order, none duplicated, invented or
\* overwritten before it was read; pop on an empty ring returns None.
C30_RingIsFifo ==
    /\ [](IsPrefix(kb_popped, kb_accepted) /\ UnreadIntact)
    /\ [][PopNoneWhenEmpty /\ PopReturnsOldest]_vars

\* the indices have wrapped around, a push was dropped on the way, and a
\* pop is about to return while a push is about to publish
C30_Witness ==
    /\ KEYBOARD_BUFFER.write_index < KEYBOARD_BUFFER.read_index
    /\ Len(kb_accepted) < kb_pushes - 1
    /\ kb_push.pc = "publish"
    /\ kb_pop.pc = "store_read"

\* a pop has returned None after characters went through the ring
C30_WitnessEmpty ==
    /\ kb_ret = [op |-> "pop", value |-> None]
    /\ kb_popped # <<>>
    /\ kb_popped = kb_accepted

\* the step on which a push returns without storing its character
PushDropped == kb_push.pc = "load_read" /\ kb_push'.pc = "idle"

\* characters published and not yet returned by pop
Unread == Len(kb_accepted) - Len(kb_popped)

\* C31: the ring holds up to BUFFER_SIZE unread characters: a push is
\* dropped only when BUFFER_SIZE entries are waiting to be read, and a
\* dropped push leaves the stored entries and both indices unchanged.
C31_DroppedOnlyWhenAllSlotsUnread ==
    [][PushDropped => (Unread = BUFFER_SIZE /\ KEYBOARD_BUFFER' = KEYBOARD_BUFFER)]_vars

\* what the ring does: a push is dropped only when BUFFER_SIZE - 1 entries
\* are waiting, one slot staying empty
C31_DroppedWhenOneSlotLeft ==
    [][PushDropped => (Unread >= BUFFER_SIZE - 1 /\ KEYBOARD_BUFFER' = KEYBOARD_BUFFER)]_vars

\* C40: free memory is maximally coalesced: after any sequence of
\* add_region (disjoint regions), allocate and deallocate calls, no two
\* blocks that are buddies of each other are both on the free list of the
\* same order below MAX_ORDER.
C40_MaximallyCoalesced ==
    \A o \in MIN_ORDER..(MAX_ORDER - 1) :
        \A i, j \in 1..Len(BUDDY.free_lists[o]) :
            BUDDY.free_lists[o][j] # buddy_of(BUDDY.free_lists[o][i], o)

\* the step is a page fault on which map_demand_page was called and
\* returned an error
MapDemandPageFailed == DemandFault /\ fault'.outcome = "kill"

\* C37: when map_demand_page returns an error, the frames outstanding from
\* the buddy allocator are the same as before the call: a data frame taken
\* for the mapping is given back when the mapping step fails.
C37_FailedMappingGivesFrameBack ==
    [][MapDemandPageFailed => FreeFrames(BUDDY') = FreeFrames(BUDDY)]_vars

(***************************************************************************)
(* Claims about Zombie processes and resumed registers                     *)
(***************************************************************************)
\* C34: once a process has become Zombie it never again becomes Ready or
\* Running, and no later timer tick or context switch selects it.
C34_ZombieStaysZombie ==
    /\ \A i \in 1..Len(processes) :
          processes[i].pid \in exited => processes[i].state = "Zombie"
    /\ current # None /\ current[1] \in exited =>
          \E i \in 1..Len(processes) :
              processes[i].pid = current[1] /\ processes[i].state = "Zombie"

\* C36: no system call, whatever its arguments, makes the kernel panic or
\* take a page fault in kernel mode; in particular read and write with a
\* buffer inside the user range that is not mapped.
C36_SyscallNeverPanics ==
    fault.kind \in {"sys_read", "sys_write"} =>
        /\ ~kernel_panic
        /\ fault.outcome \in {"returned", "touched"}

\* C35: whenever a process is put back on the CPU, by a timer-driven
\* switch_to_next or by the kill_and_switch redirect, every register it
\* observes (the 15 general-purpose registers and rip, cs, rflags, rsp, ss)
\* equals the value stored in its TrapFrame when it last left the CPU.
C35_ResumedRegistersAreTheTrapFrame ==
    resumed.pid # None =>
        \A r \in AllRegisters : resumed.observed[r] = resumed.frame[r]

(***************************************************************************)
(* Claims about the heap allocator                                         *)
(***************************************************************************)
\* C39: in a debug build the use-after-free check of SlabCache::allocate
\* panics only if an object was written after it was freed; with correctly
\* paired calls and no write to freed memory, whatever the object addresses,
\* it never panics.
C39_NoPanicWithoutUseAfterFree == ~slab_call.panic


\* C33 (as stated): for every Layout (size, align), deallocate routes the
\* block to where allocate took it from: the same size class, or for large
\* requests the same buddy order, 12 + ceil(log2(ceil(size / 4 KiB))).
C33_SameRouteOrderBySize ==
    /\ slab_call.op = "dealloc" => slab_call.route = slab_call.taken
    /\ (slab_call.op \in {"alloc", "dealloc"} /\ slab_call.route[1] = "buddy") =>
           slab_call.route[2] =
               PAGE_ORDER + CeilLog2(CeilDiv(slab_call.layout.size, PAGE_SIZE))

\* C33 (amended): deallocate routes the block to where allocate took it
\* from, and for large requests the order of both is
\* 12 + ceil(log2(ceil(max(size, align) / 4 KiB))).
C33_SameRouteOrderByMaxOfSizeAndAlign ==
    /\ slab_call.op = "dealloc" => slab_call.route = slab_call.taken
    /\ (slab_call.op \in {"alloc", "dealloc"} /\ slab_call.route[1] = "buddy") =>
           slab_call.route[2] =
               PAGE_ORDER + CeilLog2(CeilDiv(Max(slab_call.layout.size,
                                                 slab_call.layout.align), PAGE_SIZE))

\* a large block whose alignment exceeds its size has been given back
C33_LargeAlignedBlockFreed ==
    /\ slab_call.op = "dealloc"
    /\ slab_call.route[1] = "buddy"
    /\ slab_call.layout.align > slab_call.layout.size

\* C38: every non-null pointer returned for a Layout (size, align) addresses
\* a block of at least size bytes at a multiple of align, and a request with
\* max(size, align) <= 2048 is served from the smallest size class that is
\* >= max(size, align).
C38_BlockFitsAndIsAligned ==
    (slab_call.op = "alloc" /\ slab_call.ret # None) =>
        LET ptr == slab_call.ret[1]
            layout == slab_call.layout
            need == Max(layout.size, layout.align)
        IN  /\ ptr.low % layout.align = 0
            /\ BlockBytes(slab_call.route) >= layout.size
            /\ \E r \in regions : r[1] <= ptr.low /\ ptr.low + layout.size <= r[2]
            /\ need <= MAX_SLAB_SIZE =>
                   /\ slab_call.route[1] = "slab"
                   /\ class_size(slab_call.route[2]) >= need
                   /\ slab_call.route[2] > 0 => class_size(slab_call.route[2] - 1) < need

\* a request whose alignment exceeds its size has been served from a class
C38_AlignedSmallRequestServed ==
    /\ slab_call.op = "alloc"
    /\ slab_call.ret # None
    /\ slab_call.layout.align > slab_call.layout.size
    /\ slab_call.route[1] = "slab"

\* C32: no two live allocations overlap, no live allocation overlaps an
\* object on a slab free list, and what was stored through a live pointer is
\* still there, whatever was allocated and freed since.
C32_LiveAllocationsAreExclusive ==
    /\ \A l1, l2 \in live :
           l1 # l2 => ~BytesOverlap(phys_of(l1.ptr), l1.layout.size,
                               phys_of(l2.ptr), l2.layout.size)
    /\ \A l \in live : \A idx \in 0..(NUM_SLABS - 1) : \A obj \in FreeObjects(idx) :
           ~BytesOverlap(phys_of(l.ptr), l.layout.size, obj, class_size(idx))
    /\ \A l \in live : read_word(heap_mem, phys_of(l.ptr)) = l.value

\* an object has just gone back to the free list of a class of which another
\* object is live
C32_FreedBesideLive ==
    /\ slab_call.op = "dealloc"
    /\ \E l \in live :
           /\ l.route[1] = "slab"
           /\ l.route = slab_call.route
           /\ SLAB_ALLOCATOR.caches[l.route[2]].free_list = slab_call.ret
====
